---- MODULE Spec2Model ----
(***************************************************************************)
(* Kismet AIS PHY: the NMEA AIVDM/AIVDO decode pipeline                    *)
(* (src/ais_message_parser.cc, src/phy_ais.cc) and the lock wrappers of    *)
(* src/kis_mutex.h.                                                        *)
(*                                                                         *)
(* Characters are code points 0..255, strings are sequences of code        *)
(* points.  A uint64_t / int64_t is a sequence of WordBits bits, most      *)
(* significant bit first (index 1 is bit 63), so that the full 64-bit      *)
(* behaviour of the extractors is kept.                                    *)
(***************************************************************************)
EXTENDS Integers, Sequences, FiniteSets, TLC

VARIABLES
    msg,        \* the AISMessage under test: none, or its fields
    call,       \* the last extractor / codec call and what it returned
    devices,    \* device tracker: MAC -> tracked device
    last,       \* the last packet handled and how the handler left it
    build,      \* how the linked formatter treats the "{:09u}" spec
    threads,    \* thread -> its frame: position, locals, lock objects
    mutex       \* the kis_mutex the threads share: owner and depth

vars == <<msg, call, devices, last, build, threads, mutex>>

None == "none"

(***************************************************************************)
(* 64-bit words                                                            *)
(***************************************************************************)
WordBits == 64

Zero64 == [i \in 1..WordBits |-> 0]

\* 1ULL << k, for a shift count below the word width
OneShl(k) == [i \in 1..WordBits |-> IF i = WordBits - k THEN 1 ELSE 0]

\* a & b != 0
AndNonZero(a, b) == \E i \in 1..WordBits : a[i] = 1 /\ b[i] = 1

\* a - b modulo 2^64 (unsigned arithmetic): bit i of the difference is
\* a[i] - b[i] - borrow, where a borrow comes in exactly when the bits of a
\* below position i read as a smaller number than those of b
BorrowInto(a, b, i) ==
    \E j \in (i + 1)..WordBits :
        /\ a[j] = 0 /\ b[j] = 1
        /\ \A k \in (i + 1)..(j - 1) : a[k] = b[k]

Sub64(a, b) ==
    [i \in 1..WordBits |->
        (a[i] - b[i] - (IF BorrowInto(a, b, i) THEN 1 ELSE 0)) % 2]

\* the value of bits lo..hi of a word, for values that fit the checker's
\* integers (below 2^31)
RECURSIVE NatRange(_, _, _)
NatRange(v, lo, hi) ==
    IF lo > hi THEN 0
    ELSE IF lo = hi THEN v[lo]
    ELSE LET mid == (lo + hi) \div 2
             low == NatRange(v, mid + 1, hi)
             high == NatRange(v, lo, mid)
         IN IF high = 0 THEN low ELSE high * 2 ^ (hi - mid) + low

NatOf(v) == NatRange(v, 1, Len(v))

\* the value of an int64_t word (two's complement) of small magnitude
IntOf(v) ==
    IF v[1] = 0 THEN NatOf(v)
    ELSE -(NatOf([i \in 1..WordBits |-> 1 - v[i]]) + 1)

(***************************************************************************)
(* AISMessage::decode_6bit_ascii                                           *)
(***************************************************************************)
\* mutant: the gap 88..95 between the two armor ranges is not rejected
decode_6bit_ascii_NoGap(c) ==
    IF c < 48 \/ c > 119 THEN -1
    ELSE LET val == c - 48 IN IF val >= 40 THEN val - 8 ELSE val

decode_6bit_ascii(c) ==
    IF c < 48 \/ (c > 87 /\ c < 96) \/ c > 119 THEN -1
    ELSE LET val == c - 48
             v2 == IF val >= 40 THEN val - 8 ELSE val
         IN IF v2 < 0 \/ v2 > 63 THEN -1 ELSE v2

(***************************************************************************)
(* AISMessage::AISMessage: armor -> bit buffer, fill-bit trim, type        *)
(***************************************************************************)
\* mutant: val = c - 48 without the step over the gap
CtorVal_NoGap(c) == c - 48

\* the constructor's own mapping of one character (no validity check)
CtorVal(c) == LET val == c - 48 IN IF val > 40 THEN val - 8 ELSE val

\* mutant: the six bits pushed least significant first
CharBits_LsbFirst(val) == [j \in 1..6 |-> ((val % 64) \div (2 ^ (j - 1))) % 2]

\* (val >> i) & 1 for i = 5..0; val may be negative or above 63
CharBits(val) == [j \in 1..6 |-> ((val % 64) \div (2 ^ (6 - j))) % 2]

\* the buffer after the loop over the payload: six bits per character
AppendAll(payload) ==
    [k \in 1..(6 * Len(payload)) |->
        CharBits(CtorVal(payload[((k - 1) \div 6) + 1]))[((k - 1) % 6) + 1]]

TrimFill(bits, k) ==
    IF k > 0 /\ k < 6 /\ Len(bits) >= k
    THEN SubSeq(bits, 1, Len(bits) - k)
    ELSE bits

\* val after the n iterations of (val <<= 1; if (bit) val |= 1) from val = 0:
\* the bit read in iteration i has been shifted left n - 1 - i times
UintLoop(bits, start, n) ==
    [j \in 1..WordBits |->
        IF j > WordBits - n THEN bits[start + n - (WordBits - j)] ELSE 0]

get_uint_OutOfRange(bits, start, n) == start + n > Len(bits) \/ n > WordBits

\* mutant: the bits of the field accumulated LSB-first
get_uint_LsbFirst(bits, start, n) ==
    IF get_uint_OutOfRange(bits, start, n) THEN Zero64
    ELSE [j \in 1..WordBits |->
            IF j > WordBits - n THEN bits[start + (WordBits - j) + 1] ELSE 0]

get_uint(bits, start, n) ==
    IF get_uint_OutOfRange(bits, start, n) THEN Zero64
    ELSE UintLoop(bits, start, n)

\* the outcomes of 1ULL << n: defined below the word width; at n = 64 the
\* shift is undefined: the count is taken modulo 64 (x86-64, AArch64
\* register shifts) or every bit is shifted out (folded by the compiler)
ShlOutcomes(n) ==
    IF n < WordBits THEN {OneShl(n)} ELSE {OneShl(0), Zero64}

get_int_NoSign(bits, start, n, sh) ==
    IF get_uint_OutOfRange(bits, start, n) \/ n = 0 THEN Zero64
    ELSE get_uint(bits, start, n)

get_int(bits, start, n, sh) ==
    IF get_uint_OutOfRange(bits, start, n) THEN Zero64
    ELSE IF n = 0 THEN Zero64
    ELSE LET u_val == get_uint(bits, start, n)
         IN IF AndNonZero(u_val, OneShl(n - 1))
            THEN Sub64(u_val, sh)
            ELSE u_val

\* std::string::find_last_not_of(ch): the 1-based index, 0 for npos
RECURSIVE find_last_not_of(_, _, _)
find_last_not_of(s, ch, i) ==
    IF i = 0 THEN 0
    ELSE IF s[i] # ch THEN i ELSE find_last_not_of(s, ch, i - 1)

TrimArmored(s) ==
    LET l1 == find_last_not_of(s, 64, Len(s))
        s1 == IF l1 # 0 THEN SubSeq(s, 1, l1) ELSE <<>>
        l2 == find_last_not_of(s1, 32, Len(s1))
    IN IF l2 # 0 THEN SubSeq(s1, 1, l2)
       ELSE IF s1 # <<>> /\ s1[1] = 32 THEN <<>> ELSE s1

ArmorChar(v) == IF v < 32 THEN v + 64 ELSE v

get_string(bits, start, nchars) ==
    IF start + nchars * 6 > Len(bits) THEN <<>>
    ELSE TrimArmored([i \in 1..nchars |->
            ArmorChar(NatOf(get_uint(bits, start + (i - 1) * 6, 6)))])

AISMessage(payload, fill) ==
    LET bits == TrimFill(AppendAll(payload), fill)
    IN [payload_bits |-> bits,
        message_type |-> IF Len(bits) >= 6 THEN NatOf(get_uint(bits, 0, 6)) ELSE -1]

(***************************************************************************)
(* JSON values (nlohmann::json): objects are functions from keys to        *)
(* tagged values                                                           *)
(***************************************************************************)
EmptyObject == <<>>

\* number_unsigned n = hi * 2^32 + lo
JUint(n) == [t |-> "uint", hi |-> 0, v |-> n]
\* number_integer (a signed source type, as int or int64_t)
JInt(n) == [t |-> "int", v |-> n]
\* number_float num / den
JFloat(num, den) == [t |-> "float", num |-> num, den |-> den]
JStr(str) == [t |-> "str", v |-> str]

\* json[key] = value
Put(obj, key, value) ==
    [k \in (DOMAIN obj) \cup {key} |-> IF k = key THEN value ELSE obj[k]]

Has(obj, key) == key \in DOMAIN obj
is_string(obj, key) == Has(obj, key) /\ obj[key].t = "str"
is_number_unsigned(obj, key) == Has(obj, key) /\ obj[key].t = "uint"
is_number(obj, key) == Has(obj, key) /\ obj[key].t \in {"uint", "int", "float"}

(***************************************************************************)
(* The two per-type decoders                                               *)
(***************************************************************************)
\* one extractor call of a decoder: the key it fills, the conversion, the
\* start bit and the width (in characters for a string)
F(key, kind, start, n) == [key |-> key, kind |-> kind, start |-> start, n |-> n]

\* mutant: the mmsi read two bits early, over the repeat indicator
Fields123_MmsiAtSix ==
    {F("repeat_indicator", "uint", 6, 2), F("mmsi", "uint", 6, 30),
     F("nav_status", "uint", 38, 4), F("rot", "int", 42, 8),
     F("sog", "tenths", 50, 10), F("pos_accuracy", "uint", 60, 1),
     F("lon", "degrees", 61, 28), F("lat", "degrees", 89, 27),
     F("cog", "tenths", 116, 12), F("true_heading", "uint", 128, 9),
     F("timestamp", "uint", 137, 6), F("maneuver_indicator", "uint", 143, 2),
     F("raim_flag", "uint", 148, 1), F("radio_status", "uint", 149, 19)}

\* AISMessageType123::parse
Fields123 ==
    {F("repeat_indicator", "uint", 6, 2), F("mmsi", "uint", 8, 30),
     F("nav_status", "uint", 38, 4), F("rot", "int", 42, 8),
     F("sog", "tenths", 50, 10), F("pos_accuracy", "uint", 60, 1),
     F("lon", "degrees", 61, 28), F("lat", "degrees", 89, 27),
     F("cog", "tenths", 116, 12), F("true_heading", "uint", 128, 9),
     F("timestamp", "uint", 137, 6), F("maneuver_indicator", "uint", 143, 2),
     F("raim_flag", "uint", 148, 1), F("radio_status", "uint", 149, 19)}

\* AISMessageType5::parse
Fields5 ==
    {F("repeat_indicator", "uint", 6, 2), F("mmsi", "uint", 8, 30),
     F("ais_version", "uint", 38, 2), F("imo_number", "uint", 40, 30),
     F("callsign", "string", 70, 7), F("vessel_name", "string", 112, 20),
     F("ship_type", "uint", 232, 8), F("dim_to_bow", "uint", 240, 9),
     F("dim_to_stern", "uint", 249, 9), F("dim_to_port", "uint", 258, 6),
     F("dim_to_starboard", "uint", 264, 6), F("epfd_fix_type", "uint", 270, 4),
     F("eta_month", "uint", 274, 4), F("eta_day", "uint", 278, 5),
     F("eta_hour", "uint", 283, 5), F("eta_minute", "uint", 288, 6),
     F("draught", "tenths", 294, 8), F("destination", "string", 302, 20),
     F("dte", "uint", 422, 1)}

\* the <<start, width in bits>> of every extractor call of a decoder
Layout(fields) ==
    {<<f.start, IF f.kind = "string" THEN 6 * f.n ELSE f.n>> : f \in fields}
Layout123 == Layout(Fields123)
Layout5 == Layout(Fields5)

\* the JSON value one extractor call stores; every signed field is narrower
\* than a word, so 1ULL << n is defined
Extract(bits, f) ==
    IF f.kind = "string" THEN JStr(get_string(bits, f.start, f.n))
    ELSE IF f.kind \in {"int", "degrees"}
    THEN LET i == IntOf(get_int(bits, f.start, f.n, OneShl(f.n)))
         IN IF f.kind = "int" THEN JInt(i) ELSE JFloat(i, 600000)
    ELSE LET u == NatOf(get_uint(bits, f.start, f.n))
         IN IF f.kind = "uint" THEN JUint(u) ELSE JFloat(u, 10)

\* out_json after message_type and every field of the decoder are assigned
Decode(m, out, fields) ==
    [k \in (DOMAIN out) \cup {"message_type"} \cup {f.key : f \in fields} |->
        IF k = "message_type" THEN JInt(m.message_type)
        ELSE IF \E f \in fields : f.key = k
        THEN Extract(m.payload_bits, CHOOSE f \in fields : f.key = k)
        ELSE out[k]]

Parse123(m, out) == Decode(m, out, Fields123)

\* two decimal digits, zero padded: fmt "{:02}"
Fmt02(n) == IF n < 10 THEN <<48, 48 + n>> ELSE <<48 + (n \div 10), 48 + (n % 10)>>

\* mutant: hour 24 (not available) is formatted too
EtaStr_Hour24(mo, d, h, mi) ==
    IF mo >= 1 /\ mo <= 12 /\ d >= 1 /\ d <= 31 /\ h <= 24 /\ mi <= 59
    THEN Fmt02(mo) \o <<45>> \o Fmt02(d) \o <<32>> \o Fmt02(h) \o <<58>> \o Fmt02(mi)
            \o <<32, 85, 84, 67>>
    ELSE <<78, 47, 65>>

\* "MM-DD HH:MM UTC", or "N/A"
EtaStr(mo, d, h, mi) ==
    IF mo >= 1 /\ mo <= 12 /\ d >= 1 /\ d <= 31 /\ h <= 23 /\ mi <= 59
    THEN Fmt02(mo) \o <<45>> \o Fmt02(d) \o <<32>> \o Fmt02(h) \o <<58>> \o Fmt02(mi)
            \o <<32, 85, 84, 67>>
    ELSE <<78, 47, 65>>

Parse5(m, out) ==
    LET d == Decode(m, out, Fields5)
    IN Put(d, "eta_str", JStr(EtaStr(d["eta_month"].v, d["eta_day"].v,
                                     d["eta_hour"].v, d["eta_minute"].v)))

\* mutant: type 4 is handed to the position report decoder
create_ais_message_AlsoType4(message_type) ==
    IF message_type \in {1, 2, 3, 4} THEN "AISMessageType123"
    ELSE IF message_type = 5 THEN "AISMessageType5"
    ELSE None

\* create_ais_message: the decoder class for a message type, none if unsupported
create_ais_message(message_type) ==
    IF message_type \in {1, 2, 3} THEN "AISMessageType123"
    ELSE IF message_type = 5 THEN "AISMessageType5"
    ELSE None

(***************************************************************************)
(* NMEA envelope helpers                                                   *)
(***************************************************************************)
STR_AIVDM == <<65, 73, 86, 68, 77>>
STR_AIVDO == <<65, 73, 86, 68, 79>>

IsDigit(c) == c >= 48 /\ c <= 57
IsSpace(c) == c = 32 \/ (c >= 9 /\ c <= 13)

\* std::string::rfind(ch): the 1-based index of the last ch, 0 for npos
rfind(str, ch) ==
    IF \E i \in 1..Len(str) : str[i] = ch
    THEN CHOOSE i \in 1..Len(str) :
            str[i] = ch /\ \A j \in (i + 1)..Len(str) : str[j] # ch
    ELSE 0

\* XOR of the bytes str[lo..hi]: bit b of the result is the parity of the
\* number of bytes with bit b set
XorBytes(str, lo, hi) ==
    LET par(b) == Cardinality({i \in lo..hi : (str[i] \div (2 ^ b)) % 2 = 1}) % 2
    IN par(0) + 2 * par(1) + 4 * par(2) + 8 * par(3)
        + 16 * par(4) + 32 * par(5) + 64 * par(6) + 128 * par(7)

\* an uppercase hex digit's value, -1 for any other character
HexVal(c) ==
    IF IsDigit(c) THEN c - 48
    ELSE IF c >= 65 /\ c <= 70 THEN c - 55
    ELSE -1

\* kis_checksum_nmea_valid: the last '*' is followed by exactly two hex
\* digits whose value is the XOR of every byte strictly between the first
\* byte and that '*'
kis_checksum_nmea_valid(str) ==
    LET star == rfind(str, 42)
    IN /\ star > 1
       /\ Len(str) = star + 2
       /\ HexVal(str[star + 1]) >= 0 /\ HexVal(str[star + 2]) >= 0
       /\ XorBytes(str, 2, star - 1) = 16 * HexVal(str[star + 1]) + HexVal(str[star + 2])

\* split_string(content, delim): the fields between the delimiters, empty
\* fields kept
split_string(str, delim) ==
    LET at == {i \in 1..Len(str) : str[i] = delim}
        \* the position of the k-th delimiter; 0 before the first field and
        \* Len + 1 after the last
        pos(k) == IF k = 0 THEN 0
                  ELSE IF k > Cardinality(at) THEN Len(str) + 1
                  ELSE CHOOSE i \in at : Cardinality({j \in at : j < i}) = k - 1
    IN [k \in 1..(Cardinality(at) + 1) |-> SubSeq(str, pos(k - 1) + 1, pos(k) - 1)]

\* the decimal value of a digit string
RECURSIVE DigitsValue(_, _)
DigitsValue(ds, n) ==
    IF n = 0 THEN 0 ELSE 10 * DigitsValue(ds, n - 1) + (ds[n] - 48)

\* a < b for digit strings of equal length
DigitsLess(a, b) ==
    \E i \in 1..Len(a) : a[i] < b[i] /\ \A j \in 1..(i - 1) : a[j] = b[j]

INT_MAX_DIGITS == <<50, 49, 52, 55, 52, 56, 51, 54, 52, 55>>
INT_MIN_DIGITS == <<50, 49, 52, 55, 52, 56, 51, 54, 52, 56>>

\* strtol as std::stoi / std::stoul use it: leading white space is skipped,
\* one optional sign is taken, then the longest run of digits; what follows
\* the digits is ignored; found is FALSE when there is no digit.
ScanInteger(str) ==
    LET n == Len(str)
        first == IF \E i \in 1..n : ~IsSpace(str[i])
                 THEN CHOOSE i \in 1..n :
                        ~IsSpace(str[i]) /\ \A j \in 1..(i - 1) : IsSpace(str[j])
                 ELSE n + 1
        signed == first <= n /\ str[first] \in {43, 45}
        from == IF signed THEN first + 1 ELSE first
        stop == IF \E i \in from..n : ~IsDigit(str[i])
                THEN CHOOSE i \in from..n :
                        ~IsDigit(str[i]) /\ \A j \in from..(i - 1) : IsDigit(str[j])
                ELSE n + 1
    IN IF stop = from THEN [found |-> FALSE]
       ELSE [found |-> TRUE,
             digits |-> SubSeq(str, from, stop - 1),
             neg |-> signed /\ str[first] = 45]

\* the digits without their leading zeros
Significant(ds) ==
    IF \A i \in 1..Len(ds) : ds[i] = 48 THEN <<48>>
    ELSE SubSeq(ds, CHOOSE i \in 1..Len(ds) :
                        ds[i] # 48 /\ \A j \in 1..(i - 1) : ds[j] = 48, Len(ds))

\* std::stoi: [ok |-> TRUE, v |-> value], or the exception thrown
stoi(str) ==
    LET sc == ScanInteger(str)
    IN IF ~sc.found THEN [ok |-> FALSE, what |-> "invalid_argument"]
       ELSE LET sig == Significant(sc.digits)
                lim == IF sc.neg THEN INT_MIN_DIGITS ELSE INT_MAX_DIGITS
            IN IF Len(sig) > 10 \/ (Len(sig) = 10 /\ DigitsLess(lim, sig))
               THEN [ok |-> FALSE, what |-> "out_of_range"]
               ELSE IF sc.neg /\ sig = INT_MIN_DIGITS
               THEN [ok |-> TRUE, v |-> (-2147483647) - 1]
               ELSE [ok |-> TRUE,
                     v |-> IF sc.neg THEN -DigitsValue(sig, Len(sig))
                           ELSE DigitsValue(sig, Len(sig))]

(***************************************************************************)
(* kis_ais_phy::parse_aivdm: [ret, out] where out is parsed_ais_data as    *)
(* the call leaves it, given the object passed in                          *)
(***************************************************************************)
\* the fill-bit count of field 6: one character '0'..'5', else 0
NumFillBits(fields) ==
    IF Len(fields) > 6 /\ fields[7] # <<>>
    THEN IF Len(fields[7]) = 1 /\ fields[7][1] >= 48 /\ fields[7][1] <= 53
         THEN fields[7][1] - 48
         ELSE 0
    ELSE 0

\* lines 531-559: the decoder is chosen from the first payload character,
\* constructed and run; data holds the envelope fields already stored
DecodePayload(encoded_payload, num_fill_bits, message_type, class, data) ==
    IF message_type < 0 THEN [ret |-> FALSE, out |-> data]
    ELSE IF message_type <= 0 \/ message_type > 63 THEN [ret |-> FALSE, out |-> data]
    ELSE IF class = None THEN [ret |-> FALSE, out |-> data]
    ELSE [ret |-> TRUE,
          out |-> Put(Put(IF class = "AISMessageType123"
                          THEN Parse123(AISMessage(encoded_payload, num_fill_bits), data)
                          ELSE Parse5(AISMessage(encoded_payload, num_fill_bits), data),
                          "raw_nmea_payload", JStr(encoded_payload)),
                      "num_fill_bits", JInt(num_fill_bits))]

\* mutant: every fragment is decoded
AfterEnvelope_AnyFragment(fields, fragment_count, fragment_number, data) ==
    IF fields[6] = <<>> THEN [ret |-> FALSE, out |-> data]
    ELSE DecodePayload(fields[6], NumFillBits(fields),
                       decode_6bit_ascii(fields[6][1]),
                       create_ais_message(decode_6bit_ascii(fields[6][1])), data)

\* lines 496-545: the fragment test and the empty payload test
AfterEnvelope(fields, fragment_count, fragment_number, data) ==
    IF fragment_count > 1 /\ fragment_number # 1 THEN [ret |-> FALSE, out |-> data]
    ELSE IF fields[6] = <<>> THEN [ret |-> FALSE, out |-> data]
    ELSE DecodePayload(fields[6], NumFillBits(fields),
                       decode_6bit_ascii(fields[6][1]),
                       create_ais_message(decode_6bit_ascii(fields[6][1])), data)

\* lines 472-481: the envelope fields stored after both std::stoi calls
StoreEnvelope(fields, fragment_count, fragment_number, data) ==
    [k \in (DOMAIN data) \cup {"fragment_count", "fragment_number", "channel"}
            \cup (IF fields[4] # <<>> THEN {"message_id"} ELSE {}) |->
        IF k = "fragment_count" THEN JInt(fragment_count)
        ELSE IF k = "fragment_number" THEN JInt(fragment_number)
        ELSE IF k = "channel" THEN JStr(fields[5])
        ELSE IF k = "message_id" /\ fields[4] # <<>> THEN JStr(fields[4])
        ELSE data[k]]

\* lines 472-473: either std::stoi may throw, which the catch blocks turn
\* into a false return
AfterTalker(fields, fragment_count, fragment_number, data) ==
    IF ~fragment_count.ok \/ ~fragment_number.ok THEN [ret |-> FALSE, out |-> data]
    ELSE AfterEnvelope(fields, fragment_count.v, fragment_number.v,
                       StoreEnvelope(fields, fragment_count.v, fragment_number.v, data))

\* mutant: any talker is let through
ParseFields_AnyTalker(fields, data) ==
    AfterTalker(fields, stoi(fields[2]), stoi(fields[3]),
                Put(data, "nmea_talker_id_type", JStr(fields[1])))

\* lines 465-571: the body of the try block, from the split fields; the
\* talker is stored before it is tested
ParseFields(fields, data) ==
    IF fields[1] # STR_AIVDM /\ fields[1] # STR_AIVDO
    THEN [ret |-> FALSE, out |-> Put(data, "nmea_talker_id_type", JStr(fields[1]))]
    ELSE AfterTalker(fields, stoi(fields[2]), stoi(fields[3]),
                     Put(data, "nmea_talker_id_type", JStr(fields[1])))

\* mutant: the checksum is not verified
parse_aivdm_NoChecksum(aivdm_sentence, parsed_ais_data) ==
    IF aivdm_sentence = <<>> \/ aivdm_sentence[1] # 33
    THEN [ret |-> FALSE, out |-> parsed_ais_data]
    ELSE LET end_marker == rfind(aivdm_sentence, 42)
         IN IF end_marker = 0 \/ end_marker <= 2
            THEN [ret |-> FALSE, out |-> parsed_ais_data]
            ELSE LET fields == split_string(SubSeq(aivdm_sentence, 2, end_marker - 1), 44)
                 IN IF Len(fields) < 6 \/ Len(fields) > 7
                    THEN [ret |-> FALSE, out |-> parsed_ais_data]
                    ELSE ParseFields(fields, parsed_ais_data)

parse_aivdm(aivdm_sentence, parsed_ais_data) ==
    IF aivdm_sentence = <<>> \/ aivdm_sentence[1] # 33
    THEN [ret |-> FALSE, out |-> parsed_ais_data]
    ELSE IF ~kis_checksum_nmea_valid(aivdm_sentence)
    THEN [ret |-> FALSE, out |-> parsed_ais_data]
    ELSE LET end_marker == rfind(aivdm_sentence, 42)
         IN \* end_marker is a 1-based index: npos is 0, start_marker is 2
            IF end_marker = 0 \/ end_marker <= 2
            THEN [ret |-> FALSE, out |-> parsed_ais_data]
            ELSE LET fields == split_string(SubSeq(aivdm_sentence, 2, end_marker - 1), 44)
                 IN IF Len(fields) < 6 \/ Len(fields) > 7
                    THEN [ret |-> FALSE, out |-> parsed_ais_data]
                    ELSE ParseFields(fields, parsed_ais_data)

(***************************************************************************)
(* Sentences offered to parse_aivdm and to the packet handler              *)
(***************************************************************************)
Rep(c, n) == [i \in 1..n |-> c]

\* a type 1 position report of 168 bits
Payload123 ==
    <<49, 51, 51, 109, 64, 111, 103, 80, 48, 48, 80, 68, 59, 56, 56, 77, 68, 53,
      77, 84, 68, 119, 119, 64, 50, 68, 55, 107>>
\* the two fragments of a type 5 static report: 56 and 15 characters, the
\* second with 2 fill bits (424 bits together)
Payload5Head ==
    <<53, 53, 80, 53, 84, 76, 48, 49, 86, 73, 97, 65, 76, 64, 55, 87, 75, 79, 64,
      109, 66, 112, 108, 85, 64, 60, 80, 68, 104, 104, 48, 48, 48, 48, 48, 48, 48,
      48, 49, 83, 59, 65, 74, 58, 58, 52, 65, 56, 48, 63, 52, 105, 64, 69, 53, 51>>
Payload5Tail == <<49, 64, 48, 48, 48, 48, 48, 48, 48, 48, 48, 48, 48, 48, 48>>

STR_GPGGA == <<71, 80, 71, 71, 65>>

HexDigit(n) == IF n < 10 THEN 48 + n ELSE 55 + n

\* "!" content "*HH" with HH the uppercase hex XOR of the content
Sentence(content) ==
    LET x == XorBytes(content, 1, Len(content))
    IN <<33>> \o content \o <<42, HexDigit(x \div 16), HexDigit(x % 16)>>

\* the content "talker,fc,fn,seq,chan,payload,fill"
Content(talker, fc, fn, seq, chan, payload, fill) ==
    talker \o <<44>> \o fc \o <<44>> \o fn \o <<44>> \o seq \o <<44>> \o chan
        \o <<44>> \o payload \o <<44>> \o fill

\* a single-fragment AIVDM sentence on channel A
Single(payload, fill) ==
    Sentence(Content(STR_AIVDM, <<49>>, <<49>>, <<>>, <<65>>, payload, <<48 + fill>>))

Sample123 == Single(Payload123, 0)
Sample5 == Single(Payload5Head \o Payload5Tail, 2)
\* the first fragment of the type 5 report, as it arrives on its own
Sample5First ==
    Sentence(Content(STR_AIVDM, <<50>>, <<49>>, <<51>>, <<66>>, Payload5Head, <<48>>))
Sample5Second ==
    Sentence(Content(STR_AIVDM, <<50>>, <<50>>, <<51>>, <<66>>, Payload5Tail, <<50>>))

\* "205344990", the MMSI of Sample123
STR_MMSI_123 == <<50, 48, 53, 51, 52, 52, 57, 57, 48>>

\* a type 1 sentence whose payload is 3 bits long
ShortSentence == Single(<<49>>, 3)
\* a type 1 sentence whose 30 MMSI bits are all ones (1073741823)
WideMmsiSentence == Single(<<49>> \o Rep(119, 27), 0)
\* Sample123 with the checksum characters "5B"
BadChecksumSentence == SubSeq(Sample123, 1, Len(Sample123) - 2) \o <<53, 66>>
\* a six-field sentence of another talker, checksum valid
OtherTalkerSentence ==
    Sentence(Content(STR_GPGGA, <<49>>, <<49>>, <<>>, <<65>>, Payload123, <<48>>))
\* a type 4 payload
UnsupportedSentence == Single(<<52>> \o Tail(Payload123), 0)

\* later fragments that carry a whole payload: 2 of 2 and 0 of 2 with the
\* type 1 payload, 2 of 3 with the whole type 5 payload
LaterFragments ==
    <<Sentence(Content(STR_AIVDM, <<50>>, <<50>>, <<>>, <<65>>, Payload123, <<48>>)),
      Sentence(Content(STR_AIVDM, <<50>>, <<48>>, <<>>, <<65>>, Payload123, <<48>>)),
      Sentence(Content(STR_AIVDM, <<51>>, <<50>>, <<49>>, <<66>>,
                       Payload5Head \o Payload5Tail, <<50>>))>>

RawSentences ==
    <<Sample123, Sample5, Sample5First, Sample5Second, ShortSentence,
      WideMmsiSentence, BadChecksumSentence, OtherTalkerSentence, UnsupportedSentence>>
        \o LaterFragments

(***************************************************************************)
(* kis_ais_phy::mmsi_to_mac                                                *)
(***************************************************************************)
ZeroMac == <<0, 0, 0, 0, 0, 0>>

\* mutant: the high 24 of the 32 bits
StoulLow24_High24(sc) ==
    ((IF sc.neg THEN -DigitsValue(sc.digits, Len(sc.digits))
      ELSE DigitsValue(sc.digits, Len(sc.digits))) \div 256) % 16777216

\* std::stoul and the conversion to uint32_t, of which only the low 24 bits
\* are used; a minus sign negates modulo 2^64
StoulLow24(sc) ==
    (IF sc.neg THEN -DigitsValue(sc.digits, Len(sc.digits))
     ELSE DigitsValue(sc.digits, Len(sc.digits))) % 16777216

\* mutant: the three low bytes in little-endian order
MacOf_LowByteFirst(low24) ==
    <<2, 65, 73, low24 % 256, (low24 \div 256) % 256, (low24 \div 65536) % 256>>

\* 02:41:49 and the low three bytes of the MMSI
MacOf(low24) ==
    <<2, 65, 73, (low24 \div 65536) % 256, (low24 \div 256) % 256, low24 % 256>>

mmsi_to_mac(mmsi) ==
    IF Len(mmsi) # 9 THEN ZeroMac
    ELSE IF ~ScanInteger(mmsi).found THEN ZeroMac
    ELSE MacOf(StoulLow24(ScanInteger(mmsi)))

(***************************************************************************)
(* kis_ais_phy::process_ais_json                                           *)
(***************************************************************************)
\* a double as the fraction num / den
Rat(num, den) == [num |-> num, den |-> den]

\* json.get<double>()
get_double(x) == IF x.t = "float" THEN Rat(x.num, x.den) ELSE Rat(x.v, 1)
\* json.get<uint32_t>() and get<unsigned int>(): the low 32 bits
get_uint32(x) == IF x.t = "float" THEN x.num \div x.den ELSE x.v
\* json.get<uint16_t>()
get_uint16(x) == get_uint32(x) % 65536

Is(obj, key, kind) ==
    IF kind = "string" THEN is_string(obj, key)
    ELSE IF kind = "unsigned" THEN is_number_unsigned(obj, key)
    ELSE is_number(obj, key)

\* an if / else-if chain over alternative keys: the index of the first key
\* that is present with the wanted type, 0 when none is
FirstOf(obj, keys, kind) ==
    IF \E i \in 1..Len(keys) : Is(obj, keys[i], kind)
    THEN CHOOSE i \in 1..Len(keys) :
            Is(obj, keys[i], kind) /\ \A j \in 1..(i - 1) : ~Is(obj, keys[j], kind)
    ELSE 0

\* the value under the first such key; only evaluated when there is one
ValueOf(obj, keys, kind) == obj[keys[FirstOf(obj, keys, kind)]]

RawKeys == <<"raw_sentence", "raw", "line", "sentence">>

\* lines 161-184: raw_aivdm_sentence
RawSentence(json_data) ==
    IF FirstOf(json_data, RawKeys, "string") = 0 THEN <<>>
    ELSE ValueOf(json_data, RawKeys, "string").v

\* fmt "{:09}" of a uint32_t: decimal, zero padded to at least nine digits
Pad9(n) ==
    [i \in 1..(IF n >= 1000000000 THEN 10 ELSE 9) |->
        48 + ((n \div (10 ^ ((IF n >= 1000000000 THEN 10 ELSE 9) - i))) % 10)]

\* lines 201-216: the MMSI string, a rejection, or the exception the
\* formatter throws for the presentation type 'u'
MmsiString(parsed, bld) ==
    IF is_number_unsigned(parsed, "mmsi")
    THEN IF bld = "format_error" THEN [kind |-> "throw", str |-> <<>>]
         ELSE [kind |-> "ok", str |-> Pad9(get_uint32(parsed["mmsi"]))]
    ELSE IF is_string(parsed, "mmsi")
    THEN IF Len(parsed["mmsi"].v) # 9
            \/ \E i \in 1..Len(parsed["mmsi"].v) : ~IsDigit(parsed["mmsi"].v[i])
         THEN [kind |-> "reject", str |-> parsed["mmsi"].v]
         ELSE [kind |-> "ok", str |-> parsed["mmsi"].v]
    ELSE [kind |-> "reject", str |-> <<>>]

\* lines 231-240: common->freq_khz
FreqKhz(json_data, parsed) ==
    IF is_number(json_data, "frequency") THEN get_uint32(json_data["frequency"]) \div 1000
    ELSE IF is_string(parsed, "channel")
    THEN IF parsed["channel"].v = <<66>> THEN 162025 ELSE 161975
    ELSE 161975

\* "AIS "
STR_AIS_SP == <<65, 73, 83, 32>>

\* the ais_tracked_ais members, before the sub-record is inserted
AbsentAis ==
    [present |-> FALSE, mmsi |-> <<>>, vessel_name |-> <<>>, callsign |-> <<>>,
     imo_number |-> 0, ship_type |-> 0, nav_status |-> 0, destination |-> <<>>,
     eta |-> <<>>]

NoLocation == [set |-> FALSE, lat |-> Rat(0, 1), lon |-> Rat(0, 1)]

\* a tracked device as the device tracker first creates it
NewDevice ==
    [devicename |-> <<>>, manuf |-> None, type |-> None,
     ais |-> AbsentAis, fields |-> <<>>, location |-> NoLocation]

\* devicetracker update_common_device with UCD_UPDATE_FREQUENCIES |
\* UCD_UPDATE_PACKETS | UCD_UPDATE_SEENBY: the device of common.source is
\* found, or created when it is new (its packet and frequency statistics
\* are left out)
update_common_device(devs, common) ==
    [m \in (DOMAIN devs) \cup {common.source} |->
        IF m \in DOMAIN devs THEN devs[m] ELSE NewDevice]

\* lines 257-260: set_manuf, set_tracker_type_string, set_devicename
Named(dev, mmsi_str) ==
    [dev EXCEPT !.manuf = "AIS", !.type = "AIS Vessel",
                !.devicename = STR_AIS_SP \o mmsi_str]

VesselKeys == <<"vessel_name", "shipname", "name">>
ImoKeys == <<"imo_number", "imo">>
ShipTypeKeys == <<"ship_type", "shiptype">>
NavStatusKeys == <<"nav_status", "navstatus">>
EtaKeys == <<"eta_str", "eta">>

\* a string member set from the first alternative key that holds a string,
\* unless that string is empty and empty strings are skipped
StringUpdate(parsed, keys, attr, skip_empty) ==
    IF FirstOf(parsed, keys, "string") = 0 THEN <<>>
    ELSE IF skip_empty /\ ValueOf(parsed, keys, "string").v = <<>> THEN <<>>
    ELSE attr :> ValueOf(parsed, keys, "string").v

\* a uint32_t member set from the first alternative key that holds an
\* unsigned number; the IMO number only when it is in 1..999999999
UintUpdate(parsed, keys, attr, imo_range) ==
    IF FirstOf(parsed, keys, "unsigned") = 0 THEN <<>>
    ELSE IF imo_range /\ (get_uint32(ValueOf(parsed, keys, "unsigned")) <= 0
                          \/ get_uint32(ValueOf(parsed, keys, "unsigned")) > 999999999)
    THEN <<>>
    ELSE attr :> get_uint32(ValueOf(parsed, keys, "unsigned"))

\* lines 274-362: the members of ais_tracked_ais this packet assigns
Updates(parsed, mmsi_str) ==
    ("mmsi" :> mmsi_str)
        @@ StringUpdate(parsed, VesselKeys, "vessel_name", TRUE)
        @@ StringUpdate(parsed, <<"callsign">>, "callsign", TRUE)
        @@ UintUpdate(parsed, ImoKeys, "imo_number", TRUE)
        @@ UintUpdate(parsed, ShipTypeKeys, "ship_type", FALSE)
        @@ UintUpdate(parsed, NavStatusKeys, "nav_status", FALSE)
        @@ StringUpdate(parsed, <<"destination">>, "destination", TRUE)
        @@ StringUpdate(parsed, EtaKeys, "eta", FALSE)

\* the tracker field registered for each member (lines 62-77)
FieldId ==
    [mmsi |-> "ais.mmsi", vessel_name |-> "ais.common.name",
     callsign |-> "ais.common.callsign", imo_number |-> "ais.imo_number",
     ship_type |-> "ais.shiptype", nav_status |-> "ais.navstatus",
     destination |-> "ais.destination", eta |-> "ais.eta"]

\* the setters of aisdev, basedev->add_field for the same values, and the
\* device name "<vessel name> (<mmsi>)" when a vessel name was assigned
Populate(dev, ups) ==
    [dev EXCEPT
        !.ais = [a \in DOMAIN dev.ais |->
                    IF a = "present" THEN TRUE
                    ELSE IF a \in DOMAIN ups THEN ups[a] ELSE dev.ais[a]],
        !.fields = [f \in (DOMAIN dev.fields) \cup {FieldId[a] : a \in DOMAIN ups} |->
                    IF \E a \in DOMAIN ups : FieldId[a] = f
                    THEN ups[CHOOSE a \in DOMAIN ups : FieldId[a] = f]
                    ELSE dev.fields[f]],
        !.devicename = IF "vessel_name" \in DOMAIN ups
                       THEN ups["vessel_name"] \o <<32, 40>> \o ups["mmsi"] \o <<41>>
                       ELSE @]

\* knots to m/s: * 0.514444
Knots(x) == Rat(x.num * 514444, x.den * 1000000)

\* lines 403-419: gpsinfo->heading, and whether the chain set it
HeadingOf(parsed) ==
    IF is_number(parsed, "cog")
    THEN IF get_double(parsed["cog"]).num <= 360 * get_double(parsed["cog"]).den
         THEN [set |-> TRUE, v |-> get_double(parsed["cog"])]
         ELSE [set |-> FALSE, v |-> Rat(0, 1)]
    ELSE IF is_number(parsed, "true_heading")
    THEN IF get_uint16(parsed["true_heading"]) <= 359
         THEN [set |-> TRUE, v |-> Rat(get_uint16(parsed["true_heading"]), 1)]
         ELSE [set |-> FALSE, v |-> Rat(0, 1)]
    ELSE IF is_number(parsed, "course")
    THEN [set |-> TRUE, v |-> get_double(parsed["course"])]
    ELSE [set |-> FALSE, v |-> Rat(0, 1)]

HasPosition(parsed) == is_number(parsed, "lat") /\ is_number(parsed, "lon")

\* lines 369-419: the GPS component as the handler fills it
GpsOf(parsed) ==
    [lat |-> IF HasPosition(parsed) THEN get_double(parsed["lat"]) ELSE Rat(0, 1),
     lon |-> IF HasPosition(parsed) THEN get_double(parsed["lon"]) ELSE Rat(0, 1),
     fix |-> IF HasPosition(parsed) THEN 3 ELSE 0,
     alt |-> IF is_number(parsed, "altitude") THEN get_double(parsed["altitude"])
             ELSE Rat(0, 1),
     spd |-> IF FirstOf(parsed, <<"sog", "speed">>, "number") = 0 THEN Rat(0, 1)
             ELSE Knots(get_double(ValueOf(parsed, <<"sog", "speed">>, "number"))),
     heading |-> HeadingOf(parsed).v]

location_present(parsed) ==
    \/ HasPosition(parsed)
    \/ FirstOf(parsed, <<"sog", "speed">>, "number") # 0
    \/ HeadingOf(parsed).set

\* update_common_device with UCD_UPDATE_LOCATION: the device takes the
\* position of the packet's GPS component
WithLocation(dev, gps) ==
    [dev EXCEPT !.location = [set |-> TRUE, lat |-> gps.lat, lon |-> gps.lon]]

NoParse == [called |-> FALSE, ret |-> FALSE, out |-> EmptyObject]
NoCommon == [freq_khz |-> 0, source |-> ZeroMac]
NoGps ==
    [lat |-> Rat(0, 1), lon |-> Rat(0, 1), fix |-> 0, alt |-> Rat(0, 1),
     spd |-> Rat(0, 1), heading |-> Rat(0, 1)]

\* what a call leaves behind: how it ended, the components it added to the
\* packet, the device tracker, the COMMON and GPS components, and what
\* parse_aivdm did with parsed_ais_fields
Left(outcome, components, devs, common, gps, parse) ==
    [outcome |-> outcome, components |-> components, devices |-> devs,
     common |-> common, gps |-> gps, parse |-> parse]

\* lines 365-427: the GPS component, and the location update
Finish(parse, common, devs, gps) ==
    Left("true", {"COMMON", "GPS"},
         IF location_present(parse.out)
         THEN [devs EXCEPT ![common.source] = WithLocation(@, gps)]
         ELSE devs,
         common, gps, parse)

\* lines 262-362: the ais sub-record is fetched or created, then populated
WithBase(parse, mmsi_str, common, devs, env) ==
    IF ~devs[common.source].ais.present /\ env = "no_shared"
    THEN Left("false", {"COMMON"}, devs, common, NoGps, parse)
    ELSE Finish(parse, common,
                [devs EXCEPT ![common.source] = Populate(@, Updates(parse.out, mmsi_str))],
                GpsOf(parse.out))

\* lines 245-260: the device list lock (its constructor throws on timeout),
\* update_common_device, and the first naming of the device
Locked(parse, mmsi_str, common, devs, env) ==
    IF env = "lock_timeout"
    THEN Left("std::runtime_error", {"COMMON"}, devs, common, NoGps, parse)
    ELSE IF env = "no_basedev"
    THEN Left("false", {"COMMON"}, devs, common, NoGps, parse)
    ELSE WithBase(parse, mmsi_str, common,
                  [update_common_device(devs, common) EXCEPT
                        ![common.source] = Named(@, mmsi_str)],
                  env)

\* lines 218-242
WithMac(json_data, parse, mmsi_str, mac, devs, env) ==
    IF mac = ZeroMac THEN Left("false", {}, devs, NoCommon, NoGps, parse)
    ELSE Locked(parse, mmsi_str,
                [freq_khz |-> FreqKhz(json_data, parse.out), source |-> mac], devs, env)

\* lines 201-216
WithMmsi(json_data, parse, m, devs, env) ==
    IF m.kind = "throw" THEN Left("fmt::format_error", {}, devs, NoCommon, NoGps, parse)
    ELSE IF m.kind = "reject" THEN Left("false", {}, devs, NoCommon, NoGps, parse)
    ELSE WithMac(json_data, parse, m.str, mmsi_to_mac(m.str), devs, env)

\* lines 186-199
WithParsed(json_data, parse, devs, env, bld) ==
    IF ~parse.ret THEN Left("false", {}, devs, NoCommon, NoGps, parse)
    ELSE WithMmsi(json_data, parse, MmsiString(parse.out, bld), devs, env)

Called(r) == [called |-> TRUE, ret |-> r.ret, out |-> r.out]

\* parse_aivdm is a function of the sentence alone: what it returns for an
\* empty parsed_ais_fields is tabulated for the sentences the packets carry
ParsedSentences ==
    SubSeq([i \in 1..Len(RawSentences) |-> parse_aivdm(RawSentences[i], EmptyObject)],
           1, Len(RawSentences))

ParseOf(sentence) ==
    IF \E i \in 1..Len(RawSentences) : RawSentences[i] = sentence
    THEN ParsedSentences[CHOOSE i \in 1..Len(RawSentences) : RawSentences[i] = sentence]
    ELSE parse_aivdm(sentence, EmptyObject)

process_ais_json(json_data, devs, env, bld) ==
    IF FirstOf(json_data, RawKeys, "string") = 0 /\ ~Has(json_data, "mmsi")
    THEN Left("false", {}, devs, NoCommon, NoGps, NoParse)
    ELSE WithParsed(json_data,
                    IF RawSentence(json_data) # <<>>
                    THEN Called(ParseOf(RawSentence(json_data)))
                    ELSE [called |-> FALSE, ret |-> TRUE, out |-> json_data],
                    devs, env, bld)

(***************************************************************************)
(* kis_ais_phy::packet_handler                                             *)
(***************************************************************************)
\* lines 147-157: the METABLOB component is added before process_ais_json
\* runs; an exception of process_ais_json passes through
Returned(r) ==
    [r EXCEPT !.outcome = IF @ = "true" THEN "return 1"
                          ELSE IF @ = "false" THEN "return 0" ELSE @,
              !.components = @ \cup {"METABLOB"}]

packet_handler(pkt, devs, env, bld) ==
    IF pkt.error \/ pkt.filtered \/ pkt.duplicate
    THEN Left("return 0", {}, devs, NoCommon, NoGps, NoParse)
    ELSE IF ~pkt.has_json \/ pkt.type \notin {"ais", "AIVDM"}
    THEN Left("return 0", {}, devs, NoCommon, NoGps, NoParse)
    ELSE IF ~pkt.wellformed
    THEN Left("return 0", {}, devs, NoCommon, NoGps, NoParse)
    ELSE Returned(process_ais_json(pkt.doc, devs, env, bld))

(***************************************************************************)
(* Unit harness: each behaviour draws one call of the codec, of the        *)
(* constructor or of an extractor, and the action performs it.             *)
(***************************************************************************)
MaxShortLen == 2        \* exhaustive payloads up to this many characters
LongLen == 11           \* a payload long enough for a 64-bit field
MaxStart == 3           \* extractor start offsets 0..MaxStart
MaxSmallWidth == 7      \* extractor widths 0..MaxSmallWidth, plus WideWidths
MaxStrChars == 3        \* get_string character counts 0..MaxStrChars

\* '0' (0, '@'), '1' (1, 'A'), 'P' (32, ' '), 'w' (63, '?')
ValidAlphabet == {48, 49, 80, 119}
\* 'X' (88) and ' ' (32) are outside the armor ranges
InvalidAlphabet == {88, 32}

SeqsUpTo(S, n) == UNION {[1..k -> S] : k \in 0..n}


FillCounts == 0..5

WideWidths == {30, WordBits - 1, WordBits, WordBits + 1}

CtorPayloads ==
    {<<c>> : c \in 0..255}
        \cup SeqsUpTo(ValidAlphabet \cup InvalidAlphabet, MaxShortLen)

ExtractPayloads ==
    SeqsUpTo(ValidAlphabet, MaxShortLen) \cup {Rep(c, LongLen) : c \in ValidAlphabet}

StringPayloads == SeqsUpTo(ValidAlphabet, MaxStrChars)

FlipBit(c, b) == IF (c \div (2 ^ b)) % 2 = 1 THEN c - 2 ^ b ELSE c + 2 ^ b

\* the positions of the armored payload (field 6) and of the two checksum
\* characters of a sentence
CorruptiblePositions(s) ==
    LET commas == {i \in 1..Len(s) : s[i] = 44}
        after(k) == CHOOSE i \in commas : Cardinality({j \in commas : j < i}) = k - 1
    IN ((after(5) + 1)..(after(6) - 1)) \cup {Len(s) - 1, Len(s)}

\* every sentence that differs from s in exactly one bit of one such byte
SingleBitFlips(s) ==
    {[s EXCEPT ![i] = FlipBit(s[i], b)] : i \in CorruptiblePositions(s), b \in 0..7}

ValidSentences == {Sample123, Sample5}

\* payloads cut short, with the checksum of the shortened sentence
TruncatedSentences ==
    {Single(SubSeq(Payload123, 1, k), f) : k \in 1..Len(Payload123), f \in {0, 3}}
        \cup {Single(SubSeq(Payload5Head \o Payload5Tail, 1, k), 2) :
                k \in {1, 2, 20, 40, 56, 70, 71}}

EnvelopeSentences ==
    {<<>>, Tail(Sample123), SubSeq(Sample123, 1, Len(Sample123) - 3),
     Sample5First, Sample5Second,
     Sentence(Content(STR_AIVDO, <<49>>, <<49>>, <<>>, <<65>>, Payload123, <<48>>)),
     Sentence(Content(STR_GPGGA, <<49>>, <<49>>, <<>>, <<65>>, Payload123, <<48>>)),
     Sentence(Content(STR_AIVDM, <<120>>, <<49>>, <<>>, <<65>>, Payload123, <<48>>)),
     Sentence(Content(STR_AIVDM, <<49>>, <<49>>, <<>>, <<65>>, <<>>, <<48>>)),
     Sentence(Content(STR_AIVDM, <<49>>, <<49>>, <<>>, <<65>>, <<52>> \o Tail(Payload123), <<48>>)),
     Sentence(Content(STR_AIVDM, <<49>>, <<49>>, <<>>, <<65>>, <<88>> \o Tail(Payload123), <<48>>)),
     Sentence(STR_AIVDM \o <<44, 49, 44, 49>>)}

\* texts of the fragment_count and fragment_number fields:
\* "1", "2", "0", "-1", "x", "1x", " 1" and the empty field
FragTexts == {<<49>>, <<50>>, <<48>>, <<45, 49>>, <<120>>, <<49, 120>>, <<32, 49>>, <<>>}

Talkers == {STR_AIVDM, STR_AIVDO, STR_GPGGA}

\* well-framed sentences over every talker and every pair of fragment texts,
\* with a type 1 payload and with an empty payload
GridSentences ==
    {Sentence(Content(t, fc, fn, <<>>, <<65>>, p, <<48>>)) :
        t \in Talkers, fc \in FragTexts, fn \in FragTexts, p \in {Payload123, <<>>}}

\* a six-field sentence, no fill-bit field
SixFieldSentence ==
    Sentence(STR_AIVDM \o <<44, 49, 44, 49, 44, 44, 65, 44>> \o Payload123)

\* broken framing: '$' for '!', a wrong checksum, no '*', five and eight
\* fields, each for a good and for a foreign talker
FramingSentences ==
    {SixFieldSentence,
     Sentence(STR_AIVDM \o <<44, 49, 44, 49, 44, 44, 65>>),
     Sentence(STR_GPGGA \o <<44, 49, 44, 49, 44, 44, 65>>),
     Sentence(Content(STR_AIVDM, <<49>>, <<49>>, <<>>, <<65>>, Payload123, <<48, 44, 48>>)),
     Sentence(Content(STR_GPGGA, <<49>>, <<49>>, <<>>, <<65>>, Payload123, <<48, 44, 48>>))}
    \cup UNION {{<<36>> \o Tail(v), SubSeq(v, 1, Len(v) - 2) \o <<48, 48>>,
                 SubSeq(v, 1, Len(v) - 3)} :
                v \in {Sample123, OtherTalkerSentence,
                       Sentence(Content(STR_AIVDM, <<49>>, <<49>>, <<>>, <<65>>, <<>>, <<48>>))}}

\* the first payload character: every printable code point
FirstChars == 32..127

\* the type 1 and the type 5 sample with the first payload character replaced
FirstCharSentences ==
    {Single(<<c>> \o Tail(Payload123), 0) : c \in FirstChars}
        \cup {Single(<<c>> \o Tail(Payload5Head \o Payload5Tail), 2) : c \in FirstChars}

\* the armor character that carries the 6-bit value v: the character c with
\* c - 48 = v, or c - 48 - 8 = v above the gap
Armor(v) == IF v < 40 THEN v + 48 ELSE v + 56

ArmorAll(groups) == [i \in 1..Len(groups) |-> Armor(groups[i])]

\* the type 5 sample payload with the ETA bits 274..293 set: the month
\* lies in characters 46 and 47, the day in 47 and 48, the hour in 48 and
\* the minute is character 49
EtaPayload(mo, d, h, mi) ==
    [Payload5Head \o Payload5Tail EXCEPT
        ![46] = Armor((CtorVal(Payload5Head[46]) \div 4) * 4 + (mo \div 4)),
        ![47] = Armor((mo % 4) * 16 + (d \div 2)),
        ![48] = Armor((d % 2) * 32 + h),
        ![49] = Armor(mi)]

\* months, days, hours and minutes at and around the ends of their ranges
EtaSentences ==
    {Single(EtaPayload(mo, d, h, mi), 2) :
        mo \in {0, 1, 9, 12, 13, 15}, d \in {0, 1, 10, 31},
        h \in {0, 9, 23, 24, 31}, mi \in {0, 59, 60, 63}}

\* payloads of 1, 2 and all 28 characters with every fill-bit count
FillSentences ==
    {Single(SubSeq(Payload123, 1, k), f) : k \in {1, 2, Len(Payload123)}, f \in FillCounts}
        \cup {Single(SubSeq(Payload5Head \o Payload5Tail, 1, k), f) :
                k \in {1, 71}, f \in FillCounts}

ParseCalls ==
    {[op |-> "parse_aivdm", sentence |-> s, base |-> s] :
        s \in ValidSentences \cup TruncatedSentences \cup EnvelopeSentences
               \cup GridSentences \cup FramingSentences \cup FirstCharSentences
               \cup FillSentences \cup EtaSentences \cup {BadChecksumSentence}}
    \cup UNION {{[op |-> "parse_aivdm", sentence |-> s, base |-> v] :
                    s \in SingleBitFlips(v)} : v \in ValidSentences}

MaxRoundTripGroups == 2 \* exhaustive group sequences up to this length

\* 6-bit values at the ends of the two armor ranges: '0'..'W' carries 0..39
\* and '`'..'w' carries 40..63
RoundTripValues == {0, 1, 31, 32, 39, 40, 63}

\* the longest whole number of 6-bit groups get_uint reads in one call
FitGroups == WordBits \div 6

\* group sequences: every short one, and long ones of FitGroups and
\* FitGroups + 1 groups (60 and 66 bits)
RoundTripGroups ==
    (SeqsUpTo(RoundTripValues, MaxRoundTripGroups) \ {<<>>})
    \cup {[i \in 1..n |-> IF i % 2 = 1 THEN v ELSE w] :
            n \in {FitGroups, FitGroups + 1}, v \in RoundTripValues, w \in {0, 63}}

\* MMSI values: the ends of the 9-digit range, values around the byte
\* boundaries of the low 24 bits, and pairs that differ by 2^24
MmsiValues ==
    {0, 1, 255, 256, 65535, 65536, 16777215, 16777216, 16777217,
     205344990, 205344990 + 16777216, 227006760, 369190000,
     999999999 - 16777216, 999999999}

\* "227006760"
STR_MMSI_22 == <<50, 50, 55, 48, 48, 54, 55, 54, 48>>

\* texts that are not nine decimal digits: " 11111111", "+11111111",
\* "-11111111", "11111111x", "x11111111", "1111 1111", "11111",
\* "1111111111" and the empty string
MmsiTexts ==
    {<<32>> \o Rep(49, 8), <<43>> \o Rep(49, 8), <<45>> \o Rep(49, 8),
     Rep(49, 8) \o <<120>>, <<120>> \o Rep(49, 8),
     Rep(49, 4) \o <<32>> \o Rep(49, 4), Rep(49, 5), Rep(49, 10), <<>>}

\* a value for each key of a pre-parsed document, different under every key
AliasValue ==
    [mmsi |-> JStr(STR_MMSI_123),
     vessel_name |-> JStr(<<86>>), shipname |-> JStr(<<83>>), name |-> JStr(<<78>>),
     imo_number |-> JUint(1), imo |-> JUint(2),
     ship_type |-> JUint(70), shiptype |-> JUint(71),
     nav_status |-> JUint(1), navstatus |-> JUint(2),
     eta_str |-> JStr(<<69>>), eta |-> JStr(<<70>>),
     sog |-> JUint(10), speed |-> JUint(20),
     cog |-> JUint(90), course |-> JUint(180), true_heading |-> JUint(100)]

\* the pre-parsed document with mmsi and the given keys
AliasDoc(keys) == [k \in keys \cup {"mmsi"} |-> AliasValue[k]]

\* every choice of keys within one group of alternative keys; the course
\* keys also beside true_heading
AliasKeySets ==
    SUBSET {"vessel_name", "shipname", "name"} \cup SUBSET {"imo_number", "imo"}
        \cup SUBSET {"ship_type", "shiptype"} \cup SUBSET {"nav_status", "navstatus"}
        \cup SUBSET {"eta_str", "eta"} \cup SUBSET {"sog", "speed"}
        \cup SUBSET {"cog", "course", "true_heading"}

UnitCalls ==
    ParseCalls \cup
    {[op |-> "decode_6bit_ascii", c |-> c] : c \in 0..255}
    \cup {[op |-> "AISMessage", payload |-> p, fill |-> k] :
            p \in CtorPayloads, k \in FillCounts}
    \cup {[op |-> o, payload |-> p, fill |-> k, start |-> s, n |-> n] :
            o \in {"get_uint", "get_int"}, p \in ExtractPayloads, k \in {0, 2},
            s \in 0..MaxStart, n \in (0..MaxSmallWidth) \cup WideWidths}
    \cup {[op |-> "get_string", payload |-> p, fill |-> k, start |-> s, n |-> n] :
            p \in StringPayloads, k \in {0, 2}, s \in {0, 1, 6}, n \in 0..MaxStrChars}
    \cup {[op |-> "round_trip", groups |-> g] : g \in RoundTripGroups}
    \cup {[op |-> "process_ais_json", keys |-> ks] : ks \in AliasKeySets}
    \cup {[op |-> "mmsi_to_mac", mmsi |-> Pad9(m), other |-> Pad9(o)] :
            m \in MmsiValues, o \in MmsiValues}
    \cup {[op |-> "mmsi_to_mac", mmsi |-> t, other |-> STR_MMSI_22] : t \in MmsiTexts}

NoDevices == <<>>
NoPacket == [kind |-> None]

InitUnit ==
    /\ call \in {c @@ [done |-> FALSE] : c \in UnitCalls}
    /\ msg = IF call.op \in {"decode_6bit_ascii", "AISMessage", "parse_aivdm",
                             "round_trip", "mmsi_to_mac", "process_ais_json"} THEN None
             ELSE AISMessage(call.payload, call.fill)
    /\ devices = NoDevices
    /\ last = NoPacket
    /\ build = None
    /\ threads = None
    /\ mutex = None

Decode6Call ==
    /\ call.op = "decode_6bit_ascii" /\ ~call.done
    /\ call' = [call EXCEPT !.done = TRUE] @@ [ret |-> decode_6bit_ascii(call.c)]
    /\ UNCHANGED <<msg, devices, last, build, threads, mutex>>

ConstructCall ==
    /\ call.op = "AISMessage" /\ ~call.done
    /\ msg' = AISMessage(call.payload, call.fill)
    /\ call' = [call EXCEPT !.done = TRUE]
    /\ UNCHANGED <<devices, last, build, threads, mutex>>

GetUintCall ==
    /\ call.op = "get_uint" /\ ~call.done
    /\ call' = [call EXCEPT !.done = TRUE]
                @@ [ret |-> get_uint(msg.payload_bits, call.start, call.n)]
    /\ UNCHANGED <<msg, devices, last, build, threads, mutex>>

\* AISMessage(payload, 0) on the armored groups, then get_uint(0, len)
RoundTripCall ==
    /\ call.op = "round_trip" /\ ~call.done
    /\ msg' = AISMessage(ArmorAll(call.groups), 0)
    /\ call' = [call EXCEPT !.done = TRUE]
                @@ [ret |-> get_uint(msg'.payload_bits, 0, 6 * Len(call.groups))]
    /\ UNCHANGED <<devices, last, build, threads, mutex>>

\* mmsi_to_mac on each of two MMSI strings
MmsiToMacCall ==
    /\ call.op = "mmsi_to_mac" /\ ~call.done
    /\ call' = [call EXCEPT !.done = TRUE]
                @@ [ret |-> mmsi_to_mac(call.mmsi), ret_other |-> mmsi_to_mac(call.other)]
    /\ UNCHANGED <<msg, devices, last, build, threads, mutex>>

GetIntCall ==
    /\ call.op = "get_int" /\ ~call.done
    /\ \E sh \in ShlOutcomes(call.n) :
         call' = [call EXCEPT !.done = TRUE]
                   @@ [ret |-> get_int(msg.payload_bits, call.start, call.n, sh)]
    /\ UNCHANGED <<msg, devices, last, build, threads, mutex>>

GetStringCall ==
    /\ call.op = "get_string" /\ ~call.done
    /\ call' = [call EXCEPT !.done = TRUE]
                @@ [ret |-> get_string(msg.payload_bits, call.start, call.n)]
    /\ UNCHANGED <<msg, devices, last, build, threads, mutex>>

\* process_ais_json on a pre-parsed document, with no device tracked yet
ProcessJsonCall ==
    /\ call.op = "process_ais_json" /\ ~call.done
    /\ LET r == process_ais_json(AliasDoc(call.keys), devices, "ok", "padded")
       IN /\ devices' = r.devices
          /\ call' = [call EXCEPT !.done = TRUE]
                        @@ [outcome |-> r.outcome, gps |-> r.gps, source |-> r.common.source]
    /\ UNCHANGED <<msg, last, build, threads, mutex>>

\* parse_aivdm called with an empty output object
ParseAivdmCall ==
    /\ call.op = "parse_aivdm" /\ ~call.done
    /\ LET r == parse_aivdm(call.sentence, EmptyObject)
       IN call' = [call EXCEPT !.done = TRUE] @@ [ret |-> r.ret, out |-> r.out]
    /\ UNCHANGED <<msg, devices, last, build, threads, mutex>>

NextUnit ==
    \/ ParseAivdmCall
    \/ Decode6Call
    \/ ConstructCall
    \/ GetUintCall
    \/ GetIntCall
    \/ GetStringCall
    \/ RoundTripCall
    \/ MmsiToMacCall
    \/ ProcessJsonCall

SpecUnit == InitUnit /\ [][NextUnit]_vars

Done(o) == call.op = o /\ call.done

(***************************************************************************)
(* The packet chain: packets arrive one after another at packet_handler.   *)
(***************************************************************************)
\* a packet with a JSON component of the given type and document
Pkt(type, doc) ==
    [error |-> FALSE, filtered |-> FALSE, duplicate |-> FALSE, has_json |-> TRUE,
     type |-> type, wellformed |-> TRUE, doc |-> doc]

RawDoc(s) == [raw_sentence |-> JStr(s)]

\* documents that carry the sentence under a later key: behind an empty
\* raw_sentence, alone, and behind a raw_sentence that is no string; and a
\* document whose only key is an empty line
RawKeyDocs ==
    <<[raw_sentence |-> JStr(<<>>), raw |-> JStr(Sample123)],
      [raw |-> JStr(Sample123)],
      [raw_sentence |-> JUint(5), sentence |-> JStr(Sample123)],
      [line |-> JStr(<<>>)]>>

PreParsedDocs ==
    <<[mmsi |-> JUint(205344990), shipname |-> JStr(<<69, 86, 65>>)],
     [mmsi |-> JStr(STR_MMSI_123), name |-> JStr(<<69, 86, 65>>),
      frequency |-> JUint(162025000)],
     [mmsi |-> JStr(<<49, 50, 51, 52, 53>>)],
     [mmsi |-> [t |-> "uint", hi |-> 1, v |-> 205344990]],
     [mmsi |-> JUint(1234567890)],
     [mmsi |-> JInt(-5)],
     [raw_sentence |-> JStr(<<>>), mmsi |-> JStr(STR_MMSI_123)],
     EmptyObject>>
        \o RawKeyDocs

\* the packets offered to the handler, as a list
Packets ==
    [i \in 1..Len(RawSentences) |-> Pkt("ais", RawDoc(RawSentences[i]))]
        \o [i \in 1..Len(PreParsedDocs) |-> Pkt("ais", PreParsedDocs[i])]
        \o <<Pkt("AIVDM", RawDoc(Sample123)),
              Pkt("adsb", RawDoc(Sample123)),
              [Pkt("ais", RawDoc(Sample123)) EXCEPT !.error = TRUE],
              [Pkt("ais", EmptyObject) EXCEPT !.has_json = FALSE],
              [Pkt("ais", EmptyObject) EXCEPT !.wellformed = FALSE]>>

\* the device list lock times out; update_common_device returns no device;
\* the entry tracker returns no shared instance
Envs == {"ok", "lock_timeout", "no_basedev", "no_shared"}

\* whether the formatter pads the number for "{:09u}" or throws
Builds == {"padded", "format_error"}

Init ==
    /\ msg = None
    /\ call = None
    /\ devices = NoDevices
    /\ last = NoPacket
    /\ build \in Builds
    /\ threads = None
    /\ mutex = None

Handle(pkt, r) ==
    /\ devices' = r.devices
    /\ last' = [packet |-> pkt, outcome |-> r.outcome,
                components |-> r.components, common |-> r.common, gps |-> r.gps,
                parse |-> r.parse]
    /\ UNCHANGED <<msg, call, build, threads, mutex>>

PacketHandler ==
    \E i \in 1..Len(Packets), env \in Envs :
        Handle(Packets[i], packet_handler(Packets[i], devices, env, build))

Next == PacketHandler

Spec == Init /\ [][Next]_vars

(***************************************************************************)
(* kis_mutex: a std::recursive_timed_mutex shared by the threads           *)
(***************************************************************************)
NumThreads == 2         \* threads that run concurrently
MaxDepth == 2           \* acquisitions of the recursive mutex one thread may stack

Threads == 1..NumThreads

\* the owner of a mutex nobody holds
NoThread == 0

FreeMutex == [owner |-> NoThread, depth |-> 0]

\* try_lock_for: the mutex is got when it is free or already owned by the
\* calling thread; held by another thread for the whole timeout it is not
try_lock_for(mtx, t) ==
    \/ mtx.owner = NoThread
    \/ mtx.owner = t /\ mtx.depth < MaxDepth

\* the mutex after thread t got it
Acquired(mtx, t) == [owner |-> t, depth |-> mtx.depth + 1]

\* the mutex after one level of its owner is released
Released(mtx) ==
    IF mtx.depth <= 1 THEN FreeMutex ELSE [mtx EXCEPT !.depth = @ - 1]

\* kis_mutex::unlock by thread t.  Unlocking a std::recursive_timed_mutex
\* the thread does not own is undefined: the mutex is left alone, or a level
\* of its owner is released.
unlock(mtx, t) ==
    IF mtx.owner = t THEN {Released(mtx)}
    ELSE {mtx, Released(mtx)}

(***************************************************************************)
(* kis_unique_lock: each thread builds one lock object over the mutex.     *)
(* acquisitions counts the levels of the mutex the object got and has not  *)
(* given back; raw counts the levels the thread took with the mutex's own  *)
(* lock(), which an adopting constructor takes over.                       *)
(***************************************************************************)
NoLock ==
    [obj |-> "none", locked |-> FALSE, acquisitions |-> 0, raw |-> 0, thrown |-> FALSE]

InitLock ==
    /\ msg = None /\ call = None /\ devices = NoDevices
    /\ last = NoPacket /\ build = None
    /\ threads = [t \in Threads |-> NoLock]
    /\ mutex = FreeMutex

\* kis_mutex::lock() called by the thread itself, before any lock object
MutexLock(t) ==
    /\ threads[t].obj = "none" /\ ~threads[t].thrown /\ threads[t].raw = 0
    /\ try_lock_for(mutex, t)
    /\ mutex' = Acquired(mutex, t)
    /\ threads' = [threads EXCEPT ![t].raw = 1]
    /\ UNCHANGED <<msg, call, devices, last, build>>

\* kis_unique_lock(M&, op): try_lock_for, or throw; locked keeps its
\* default member initializer
ConstructLocking(t) ==
    /\ threads[t].obj = "none" /\ ~threads[t].thrown
    /\ IF try_lock_for(mutex, t)
       THEN /\ mutex' = Acquired(mutex, t)
            /\ threads' = [threads EXCEPT ![t].obj = "alive", ![t].locked = FALSE,
                                          ![t].acquisitions = 1]
       ELSE /\ threads' = [threads EXCEPT ![t].thrown = TRUE]
            /\ UNCHANGED mutex
    /\ UNCHANGED <<msg, call, devices, last, build>>

\* kis_unique_lock(M&, std::defer_lock_t, op)
ConstructDefer(t) ==
    /\ threads[t].obj = "none" /\ ~threads[t].thrown
    /\ threads' = [threads EXCEPT ![t].obj = "alive", ![t].locked = FALSE]
    /\ UNCHANGED <<msg, call, devices, last, build, mutex>>

\* kis_unique_lock(M&, std::adopt_lock_t, op): the thread already holds the
\* mutex and the object takes that level over
ConstructAdopt(t) ==
    /\ threads[t].obj = "none" /\ ~threads[t].thrown /\ threads[t].raw = 1
    /\ threads' = [threads EXCEPT ![t].obj = "alive", ![t].locked = TRUE,
                                  ![t].raw = 0, ![t].acquisitions = 1]
    /\ UNCHANGED <<msg, call, devices, last, build, mutex>>

\* lock(): throws when locked; else sets locked, then try_lock_for or throw
UniqueLock(t) ==
    /\ threads[t].obj = "alive"
    /\ IF threads[t].locked
       THEN /\ threads' = [threads EXCEPT ![t].thrown = TRUE]
            /\ UNCHANGED mutex
       ELSE IF try_lock_for(mutex, t)
       THEN /\ mutex' = Acquired(mutex, t)
            /\ threads' = [threads EXCEPT ![t].locked = TRUE, ![t].acquisitions = @ + 1]
       ELSE /\ threads' = [threads EXCEPT ![t].locked = TRUE, ![t].thrown = TRUE]
            /\ UNCHANGED mutex
    /\ UNCHANGED <<msg, call, devices, last, build>>

\* try_lock(): throws when locked; else locked = try_lock_for(...)
UniqueTryLock(t) ==
    /\ threads[t].obj = "alive"
    /\ IF threads[t].locked
       THEN /\ threads' = [threads EXCEPT ![t].thrown = TRUE]
            /\ UNCHANGED mutex
       ELSE IF try_lock_for(mutex, t)
       THEN /\ mutex' = Acquired(mutex, t)
            /\ threads' = [threads EXCEPT ![t].locked = TRUE, ![t].acquisitions = @ + 1]
       ELSE /\ threads' = [threads EXCEPT ![t].locked = FALSE]
            /\ UNCHANGED mutex
    /\ UNCHANGED <<msg, call, devices, last, build>>

\* the object's count after it called mutex.unlock()
GivenBack(n) == IF n > 0 THEN n - 1 ELSE 0

\* unlock(): throws when not locked; else mutex.unlock(), locked = false
UniqueUnlock(t) ==
    /\ threads[t].obj = "alive"
    /\ IF ~threads[t].locked
       THEN /\ threads' = [threads EXCEPT ![t].thrown = TRUE]
            /\ UNCHANGED mutex
       ELSE /\ mutex' \in unlock(mutex, t)
            /\ threads' = [threads EXCEPT ![t].locked = FALSE,
                                          ![t].acquisitions = GivenBack(@)]
    /\ UNCHANGED <<msg, call, devices, last, build>>

\* ~kis_unique_lock(): mutex.unlock() when locked
UniqueDestroy(t) ==
    /\ threads[t].obj = "alive"
    /\ IF threads[t].locked
       THEN /\ mutex' \in unlock(mutex, t)
            /\ threads' = [threads EXCEPT ![t].obj = "destroyed",
                                          ![t].acquisitions = GivenBack(@)]
       ELSE /\ threads' = [threads EXCEPT ![t].obj = "destroyed"]
            /\ UNCHANGED mutex
    /\ UNCHANGED <<msg, call, devices, last, build>>

NextLock ==
    \/ \E t \in Threads : MutexLock(t)
    \/ \E t \in Threads : ConstructLocking(t)
    \/ \E t \in Threads : ConstructDefer(t)
    \/ \E t \in Threads : ConstructAdopt(t)
    \/ \E t \in Threads : UniqueLock(t)
    \/ \E t \in Threads : UniqueTryLock(t)
    \/ \E t \in Threads : UniqueUnlock(t)
    \/ \E t \in Threads : UniqueDestroy(t)

SpecLock == InitLock /\ [][NextLock]_vars

(***************************************************************************)
(* process_ais_json run by several threads over one device tracker.  Each  *)
(* thread's frame holds its position, the locals the later steps read, and *)
(* guard, the levels of the device list mutex its kis_lock_guard holds.    *)
(***************************************************************************)
TrackerDocs ==
    <<RawDoc(Sample123), RawDoc(BadChecksumSentence),
      [mmsi |-> JStr(STR_MMSI_123), name |-> JStr(<<69, 86, 65>>)],
      [mmsi |-> JStr(STR_MMSI_22)],
      EmptyObject>>

Idle == [pc |-> "idle", guard |-> 0]

InitTracker ==
    /\ msg = None /\ call = None /\ devices = NoDevices
    /\ last = NoPacket /\ build = "padded"
    /\ threads = [t \in Threads |-> Idle]
    /\ mutex = FreeMutex

\* ~kis_lock_guard(): retain is false, the mutex is unlocked
GuardDestroyed_Retained(mtx, t) == {mtx}

GuardDestroyed(mtx, t) == unlock(mtx, t)

\* a return of process_ais_json: lk, if constructed, is destroyed
Leave(t, ret) ==
    /\ threads' = [threads EXCEPT ![t] = [pc |-> "returned", guard |-> 0, ret |-> ret]]
    /\ IF threads[t].guard > 0
       THEN mutex' \in GuardDestroyed(mutex, t)
       ELSE UNCHANGED mutex

\* lines 160-242 up to the lock: the sentence is decoded, the MMSI validated
\* and the MAC derived; r is the call as far as the lock
Decoded(t, r) ==
    IF r.outcome = "std::runtime_error"
    THEN /\ threads' = [threads EXCEPT ![t] =
                [pc |-> "decoded", guard |-> 0, parse |-> r.parse, common |-> r.common,
                 mmsi_str |-> MmsiString(r.parse.out, build).str]]
         /\ UNCHANGED mutex
    ELSE Leave(t, FALSE)

ProcessDecode(t) ==
    /\ threads[t].pc \in {"idle", "returned", "thrown"}
    /\ \E i \in 1..Len(TrackerDocs) :
            Decoded(t, process_ais_json(TrackerDocs[i], devices, "lock_timeout", build))
    /\ UNCHANGED <<msg, call, devices, last, build>>

\* line 244: kis_lock_guard lk(...): try_lock_for, or std::runtime_error
ProcessLock(t) ==
    /\ threads[t].pc = "decoded"
    /\ IF try_lock_for(mutex, t)
       THEN /\ mutex' = Acquired(mutex, t)
            /\ threads' = [threads EXCEPT ![t].pc = "locked", ![t].guard = 1]
       ELSE /\ threads' = [threads EXCEPT ![t] = [pc |-> "thrown", guard |-> 0]]
            /\ UNCHANGED mutex
    /\ UNCHANGED <<msg, call, devices, last, build>>

\* lines 246-259: update_common_device, which may give no device, and the
\* first naming
ProcessCommon(t) ==
    /\ threads[t].pc = "locked"
    /\ \/ /\ Leave(t, FALSE)
          /\ UNCHANGED devices
       \/ /\ devices' = [update_common_device(devices, threads[t].common) EXCEPT
                            ![threads[t].common.source] = Named(@, threads[t].mmsi_str)]
          /\ threads' = [threads EXCEPT ![t].pc = "based"]
          /\ UNCHANGED mutex
    /\ UNCHANGED <<msg, call, last, build>>

\* lines 261-425: the ais sub-record, which the entry tracker may fail to
\* give for a new device, its members, and the location update
ProcessRecord(t) ==
    /\ threads[t].pc = "based"
    /\ \/ /\ ~devices[threads[t].common.source].ais.present
          /\ Leave(t, FALSE)
          /\ UNCHANGED devices
       \/ /\ devices' = WithBase(threads[t].parse, threads[t].mmsi_str,
                                 threads[t].common, devices, "ok").devices
          /\ threads' = [threads EXCEPT ![t].pc = "populated"]
          /\ UNCHANGED mutex
    /\ UNCHANGED <<msg, call, last, build>>

\* line 427: return true
ProcessReturn(t) ==
    /\ threads[t].pc = "populated"
    /\ Leave(t, TRUE)
    /\ UNCHANGED <<msg, call, devices, last, build>>

NextTracker ==
    \/ \E t \in Threads : ProcessDecode(t)
    \/ \E t \in Threads : ProcessLock(t)
    \/ \E t \in Threads : ProcessCommon(t)
    \/ \E t \in Threads : ProcessRecord(t)
    \/ \E t \in Threads : ProcessReturn(t)

SpecTracker == InitTracker /\ [][NextTracker]_vars

(***************************************************************************)
(* parse_aivdm run by several threads.  Each thread's frame holds its      *)
(* position and the call's own objects: the sentence and parsed_ais_data   *)
(* it was given, and the locals fields, fragment_count, fragment_number.   *)
(***************************************************************************)
DecodeSentences ==
    <<Sample123, Sample5, Sample5Second, BadChecksumSentence, OtherTalkerSentence,
      UnsupportedSentence, SixFieldSentence>>

NoCall ==
    [pc |-> "idle", sentence |-> <<>>, fields |-> <<>>, fragment_count |-> 0,
     fragment_number |-> 0, data |-> EmptyObject, ret |-> FALSE]

InitDecode ==
    /\ msg = None /\ call = None /\ devices = NoDevices
    /\ last = NoPacket /\ build = None
    /\ threads = [t \in Threads |-> NoCall]
    /\ mutex = FreeMutex

\* mutant: fields is one static vector, kept in the first thread's frame
FieldsFrame_Static(t) == 1

\* line 448: fields is a local of the call; the frame that holds it
FieldsFrame(t) == t

\* parse_aivdm is entered with a sentence and an empty parsed_ais_data
DecodeCall(t) ==
    /\ threads[t].pc \in {"idle", "done"}
    /\ \E i \in 1..Len(DecodeSentences) :
            threads' = [threads EXCEPT ![t] =
                            [NoCall EXCEPT !.pc = "called", !.sentence = DecodeSentences[i]]]
    /\ UNCHANGED <<msg, call, devices, last, build, mutex>>

\* a false return
DecodeFails(t) == [threads EXCEPT ![t].pc = "done", ![t].ret = FALSE]

\* lines 431-462: '!', the checksum, '*', the split and the field count
DecodeFrame(t) ==
    /\ threads[t].pc = "called"
    /\ threads' =
          IF threads[t].sentence = <<>> \/ threads[t].sentence[1] # 33
          THEN DecodeFails(t)
          ELSE IF ~kis_checksum_nmea_valid(threads[t].sentence)
          THEN DecodeFails(t)
          ELSE IF rfind(threads[t].sentence, 42) <= 2
          THEN DecodeFails(t)
          ELSE IF Len(split_string(SubSeq(threads[t].sentence, 2,
                                          rfind(threads[t].sentence, 42) - 1), 44)) \notin {6, 7}
          THEN DecodeFails(t)
          ELSE [threads EXCEPT
                    ![FieldsFrame(t)].fields =
                        split_string(SubSeq(threads[t].sentence, 2,
                                            rfind(threads[t].sentence, 42) - 1), 44),
                    ![t].pc = "split"]
    /\ UNCHANGED <<msg, call, devices, last, build, mutex>>

\* lines 466-470: the talker is stored, then tested
DecodeTalker(t) ==
    /\ threads[t].pc = "split"
    /\ threads' =
          [threads EXCEPT
              ![t].data = Put(@, "nmea_talker_id_type",
                              JStr(threads[FieldsFrame(t)].fields[1])),
              ![t].pc = IF threads[FieldsFrame(t)].fields[1] \in {STR_AIVDM, STR_AIVDO}
                        THEN "talker" ELSE "done",
              ![t].ret = FALSE]
    /\ UNCHANGED <<msg, call, devices, last, build, mutex>>

\* the frame after both std::stoi calls, the envelope fields stored
EnvelopeStored(t, fields, fragment_count, fragment_number) ==
    IF ~fragment_count.ok \/ ~fragment_number.ok THEN DecodeFails(t)
    ELSE [threads EXCEPT
              ![t].fragment_count = fragment_count.v,
              ![t].fragment_number = fragment_number.v,
              ![t].data = StoreEnvelope(fields, fragment_count.v, fragment_number.v, @),
              ![t].pc = "envelope"]

\* lines 472-481
DecodeEnvelope(t) ==
    /\ threads[t].pc = "talker"
    /\ threads' = EnvelopeStored(t, threads[FieldsFrame(t)].fields,
                                 stoi(threads[FieldsFrame(t)].fields[2]),
                                 stoi(threads[FieldsFrame(t)].fields[3]))
    /\ UNCHANGED <<msg, call, devices, last, build, mutex>>

\* the frame at the return of the call
DecodeReturns(t, r) ==
    [threads EXCEPT ![t].pc = "done", ![t].ret = r.ret, ![t].data = r.out]

\* lines 483-573: fill bits, the fragment test, the payload decoded
DecodeMessage(t) ==
    /\ threads[t].pc = "envelope"
    /\ threads' = DecodeReturns(t, AfterEnvelope(threads[FieldsFrame(t)].fields,
                                                 threads[t].fragment_count,
                                                 threads[t].fragment_number,
                                                 threads[t].data))
    /\ UNCHANGED <<msg, call, devices, last, build, mutex>>

NextDecode ==
    \/ \E t \in Threads : DecodeCall(t)
    \/ \E t \in Threads : DecodeFrame(t)
    \/ \E t \in Threads : DecodeTalker(t)
    \/ \E t \in Threads : DecodeEnvelope(t)
    \/ \E t \in Threads : DecodeMessage(t)

SpecDecode == InitDecode /\ [][NextDecode]_vars

(***************************************************************************)
(* Properties of the codec, the constructor and the extractors             *)
(***************************************************************************)
\* bit b (0 = least significant) of a 6-bit value
BitOf(v, b) == (v \div (2 ^ b)) % 2

\* sum over i < n of bit[start + i] * 2^(n - 1 - i)
RECURSIVE MsbFirstSum(_, _, _)
MsbFirstSum(bits, start, n) ==
    IF n = 0 THEN 0
    ELSE 2 * MsbFirstSum(bits, start, n - 1) + bits[start + n]

\* widths whose values fit the checker's integers
MaxNumWidth == 30

InRange(c) == c.start + c.n <= Len(msg.payload_bits) /\ c.n <= WordBits

\* C6: decode_6bit_ascii(c) is c - 48 on 48..87, c - 56 on 96..119 and the
\* invalid marker -1 on every other code point; it is always in 0..63 or -1.
C6_DecodeTable ==
    Done("decode_6bit_ascii") =>
        /\ call.ret = (IF call.c >= 48 /\ call.c <= 87 THEN call.c - 48
                       ELSE IF call.c >= 96 /\ call.c <= 119 THEN call.c - 56
                       ELSE -1)
        /\ call.ret \in (0..63) \cup {-1}

C6_Witness == Done("decode_6bit_ascii") /\ call.c = 96 /\ call.ret = 40

AllValid(payload) == \A i \in 1..Len(payload) : decode_6bit_ascii(payload[i]) # -1

\* C7: a payload of n valid armor characters with k fill bits gives a buffer
\* of 6n - k bits (6n when 6n < k) whose bit i is bit 5 - (i mod 6) of
\* decode_6bit_ascii(payload[i div 6]): MSB-first, the last k bits dropped.
C7_BufferLayout ==
    (Done("AISMessage") /\ AllValid(call.payload)) =>
        LET n == Len(call.payload)
            k == call.fill
            bits == msg.payload_bits
        IN /\ Len(bits) = (IF 6 * n < k THEN 6 * n ELSE 6 * n - k)
           /\ \A i \in 0..(Len(bits) - 1) :
                bits[i + 1] =
                    BitOf(decode_6bit_ascii(call.payload[(i \div 6) + 1]), 5 - (i % 6))

C7_Witness ==
    /\ Done("AISMessage") /\ AllValid(call.payload)
    /\ Len(call.payload) = 2 /\ call.fill = 3
    /\ Len(msg.payload_bits) = 9
    /\ \E i \in 1..9 : msg.payload_bits[i] = 1

RemoveInvalid(payload) == SelectSeq(payload, LAMBDA c : decode_6bit_ascii(c) # -1)

\* C8: an invalid armor character contributes zero bits: the buffer built
\* from a payload equals the buffer built from the payload with its invalid
\* characters removed.
C8_InvalidContributesNothing ==
    Done("AISMessage") =>
        msg.payload_bits = AISMessage(RemoveInvalid(call.payload), call.fill).payload_bits

\* C9: for start + w <= length and w <= 64, get_uint(start, w) is the sum of
\* bit[start + i] * 2^(w - 1 - i): bit i of the field is bit w - 1 - i of the
\* result and every higher bit of the result is 0; get_uint(n, 0) = 0.
C9_GetUintValue ==
    (Done("get_uint") /\ InRange(call)) =>
        LET bits == msg.payload_bits
        IN /\ \A i \in 0..(call.n - 1) :
                call.ret[WordBits - (call.n - 1 - i)] = bits[call.start + i + 1]
           /\ \A j \in 1..(WordBits - call.n) : call.ret[j] = 0
           /\ call.n <= MaxNumWidth =>
                NatOf(call.ret) = MsbFirstSum(bits, call.start, call.n)
           /\ call.n = 0 => call.ret = Zero64

C9_Witness ==
    /\ Done("get_uint") /\ InRange(call)
    /\ call.n = WordBits /\ call.start = 1
    /\ call.ret[1] = 0 /\ call.ret[5] = 1

HighBitSet(c) == c.n >= 1 /\ msg.payload_bits[c.start + 1] = 1

\* the int64_t encoding of get_uint(start, n) - 2^n: the field, sign-extended
MinusTwoToTheN(c) ==
    [j \in 1..WordBits |->
        IF j > WordBits - c.n
        THEN msg.payload_bits[c.start + c.n - (WordBits - j)] ELSE 1]

\* C10: for in-range start and 1 <= w <= 64, get_int(start, w) is
\* get_uint(start, w) - 2^w when the field's high bit is set and
\* get_uint(start, w) otherwise; get_int(start, 0) = 0.
C10_GetIntTwosComplement ==
    (Done("get_int") /\ InRange(call)) =>
        /\ call.n = 0 => call.ret = Zero64
        /\ (call.n >= 1 /\ HighBitSet(call)) => call.ret = MinusTwoToTheN(call)
        /\ (call.n >= 1 /\ ~HighBitSet(call)) =>
                call.ret = get_uint(msg.payload_bits, call.start, call.n)
        /\ (call.n >= 1 /\ call.n <= MaxNumWidth /\ HighBitSet(call)) =>
                IntOf(call.ret) =
                    NatOf(get_uint(msg.payload_bits, call.start, call.n)) - 2 ^ call.n

(***************************************************************************)
(* parse_aivdm                                                             *)
(***************************************************************************)
\* the fields parse_aivdm splits a framed sentence into
FieldsOf(sentence) == split_string(SubSeq(sentence, 2, rfind(sentence, 42) - 1), 44)

\* the bit buffer the decoder of a sentence reads
BufferOf(sentence) ==
    AISMessage(FieldsOf(sentence)[6], NumFillBits(FieldsOf(sentence))).payload_bits

\* the <<start, width>> reads of the decoder the first payload character selects
LayoutOf(sentence) ==
    IF create_ais_message(decode_6bit_ascii(FieldsOf(sentence)[6][1])) = "AISMessageType5"
    THEN Layout5 ELSE Layout123

\* C1: parse_aivdm returns a record only when every extractor read of the
\* dispatched type lies inside the trimmed bit buffer (168 bits for types
\* 1/2/3, 423 for type 5); a shorter payload, the first fragment of a type 5
\* message among them, is rejected.
C1_RecordOnlyWhenLongEnough ==
    Done("parse_aivdm") /\ call.ret =>
        \A f \in LayoutOf(call.sentence) : f[1] + f[2] <= Len(BufferOf(call.sentence))

Handled == "outcome" \in DOMAIN last

\* the packet passes the handler's own gates and its document is processed
Gated(pkt) ==
    /\ ~pkt.error /\ ~pkt.filtered /\ ~pkt.duplicate
    /\ pkt.has_json /\ pkt.type \in {"ais", "AIVDM"} /\ pkt.wellformed

\* '!' first, a valid checksum, six or seven fields, talker AIVDM or AIVDO,
\* fragment 1 of 1, and a payload of type 1, 2, 3 or 5
ValidSingleFragment(s) ==
    /\ s # <<>> /\ s[1] = 33
    /\ kis_checksum_nmea_valid(s)
    /\ Len(FieldsOf(s)) \in {6, 7}
    /\ FieldsOf(s)[1] \in {STR_AIVDM, STR_AIVDO}
    /\ FieldsOf(s)[2] = <<49>> /\ FieldsOf(s)[3] = <<49>>
    /\ FieldsOf(s)[6] # <<>>
    /\ decode_6bit_ascii(FieldsOf(s)[6][1]) \in {1, 2, 3, 5}

\* the call ended for a reason outside the sentence: the device list lock
\* timed out, or the trackers returned no device or no sub-record
EnvironmentFailed ==
    \/ last.outcome = "std::runtime_error"
    \/ last.outcome = "return 0" /\ "COMMON" \in last.components

\* C2: a sentence with '!', a valid checksum, a valid single-fragment
\* AIVDM/AIVDO frame and a payload of type 1, 2, 3 or 5 is processed
\* successfully, and the device it yields carries as mmsi the 30 bits at
\* offset 8 in decimal, zero-padded to nine digits.
C2_ValidSentenceYieldsMmsi ==
    (Handled /\ Gated(last.packet)
            /\ ValidSingleFragment(RawSentence(last.packet.doc))
            /\ ~EnvironmentFailed) =>
        /\ last.outcome = "return 1"
        /\ last.common.source \in DOMAIN devices
        /\ devices[last.common.source].ais.mmsi =
                Pad9(NatOf(get_uint(BufferOf(RawSentence(last.packet.doc)), 8, 30)))

IsNineDigits(str) == Len(str) = 9 /\ \A i \in 1..9 : IsDigit(str[i])

\* the MMSI inside a device name: "AIS <mmsi>" or "<vessel name> (<mmsi>)"
NameMmsi(name) ==
    IF Len(name) = 13 /\ SubSeq(name, 1, 4) = STR_AIS_SP THEN SubSeq(name, 5, 13)
    ELSE SubSeq(name, Len(name) - 9, Len(name) - 1)

StoredMmsiNineDigits ==
    \A m \in DOMAIN devices :
        /\ IsNineDigits(NameMmsi(devices[m].devicename))
        /\ devices[m].ais.present =>
              /\ IsNineDigits(devices[m].ais.mmsi)
              /\ devices[m].fields["ais.mmsi"] = devices[m].ais.mmsi
              /\ NameMmsi(devices[m].devicename) = devices[m].ais.mmsi

\* the MMSI a document carries can be written as nine decimal digits: on
\* the raw path the payload holds the 30 bits at offset 8 and their value is
\* below 10^9; on the pre-parsed path the number is below 10^9 or the
\* string is nine digits
MmsiFormable(doc) ==
    IF RawSentence(doc) # <<>>
    THEN /\ ParseOf(RawSentence(doc)).ret
         /\ Len(BufferOf(RawSentence(doc))) >= 38
         /\ NatOf(get_uint(BufferOf(RawSentence(doc)), 8, 30)) < 1000000000
    ELSE \/ is_number_unsigned(doc, "mmsi")
                /\ doc["mmsi"].hi = 0 /\ doc["mmsi"].v < 1000000000
         \/ is_string(doc, "mmsi") /\ IsNineDigits(doc["mmsi"].v)

RejectedBeforeDevice == ~MmsiFormable(last'.packet.doc) => devices' = devices

\* C3: every MMSI stored on a tracked device (set_mmsi, the ais.mmsi field,
\* the device name) is exactly nine decimal digits, and a packet whose MMSI
\* cannot be put in that form creates or updates no device.
C3_NineDigitMmsiOrRejected ==
    []StoredMmsiNineDigits /\ [][RejectedBeforeDevice]_vars

\* the handler reached the JSON component of the packet
Fetched(pkt) == ~pkt.error /\ ~pkt.filtered /\ ~pkt.duplicate /\ pkt.has_json

FailureLeavesNoTrace ==
    (Fetched(last'.packet) /\ last'.outcome = "return 0") =>
        /\ last'.components = {}
        /\ devices' = devices
        /\ (last'.parse.called /\ ~last'.parse.ret) => DOMAIN last'.parse.out = {}

\* C4: when the handler returns 0 after fetching the JSON component, the
\* object handed to parse_aivdm, the packet's components and the tracked
\* devices are as they were before the call.
C4_FailureLeavesNoTrace == [][FailureLeavesNoTrace]_vars

(***************************************************************************)
(* The armor round trip                                                    *)
(***************************************************************************)
\* the bit sequence the groups stand for: six bits per group, MSB first
GroupBits(groups) ==
    [k \in 1..(6 * Len(groups)) |->
        (groups[((k - 1) \div 6) + 1] \div (2 ^ (5 - ((k - 1) % 6)))) % 2]

\* the 64-bit word holds the integer the bit sequence spells MSB first
SpellsInteger(word, bits) ==
    /\ \A j \in 1..WordBits :
          word[j] = IF j > WordBits - Len(bits)
                    THEN bits[Len(bits) - (WordBits - j)] ELSE 0
    /\ \A i \in 1..(Len(bits) - WordBits) : bits[i] = 0

RECURSIVE GroupsValue(_)
GroupsValue(groups) ==
    IF groups = <<>> THEN 0
    ELSE 64 * GroupsValue(SubSeq(groups, 1, Len(groups) - 1)) + groups[Len(groups)]

RoundTripHolds ==
    /\ SpellsInteger(call.ret, GroupBits(call.groups))
    /\ 6 * Len(call.groups) <= MaxNumWidth =>
          NatOf(call.ret) = GroupsValue(call.groups)

\* C11 as stated: for any bit sequence whose length is a multiple of 6,
\* armoring it, constructing the message with 0 fill bits and reading
\* get_uint(0, len) returns the sequence as an MSB-first integer.
C11_RoundTripAnyLength == Done("round_trip") => RoundTripHolds

\* C11 amended: the round trip holds for every bit sequence whose length is a
\* multiple of 6 and at most 64, the widest field get_uint reads.
C11_RoundTripWithinWord ==
    (Done("round_trip") /\ 6 * Len(call.groups) <= WordBits) => RoundTripHolds

C11_Witness ==
    /\ Done("round_trip") /\ Len(call.groups) = FitGroups
    /\ call.groups[1] = 40 /\ call.groups[2] = 63
    /\ call.ret[5] = 1 /\ call.ret[6] = 0 /\ call.ret[WordBits - 6] = 0

(***************************************************************************)
(* Armored strings                                                         *)
(***************************************************************************)
StringInRange(c) == c.start + 6 * c.n <= Len(msg.payload_bits)

\* the n characters of the field before trimming: group v gives v + 64 when
\* v < 32 and v otherwise
MappedField(c) ==
    [i \in 1..c.n |->
        LET v == MsbFirstSum(msg.payload_bits, c.start + 6 * (i - 1), 6)
        IN IF v < 32 THEN v + 64 ELSE v]

\* s without its trailing run of ch
DropTrailing(s, ch) ==
    LET keep == CHOOSE k \in 0..Len(s) :
                    /\ \A i \in (k + 1)..Len(s) : s[i] = ch
                    /\ k > 0 => s[k] # ch
    IN SubSeq(s, 1, keep)

IsPrefix(p, s) == Len(p) <= Len(s) /\ p = SubSeq(s, 1, Len(p))

OnlyPadding(s) == \A i \in 1..Len(s) : s[i] \in {64, 32}

\* the first sentence of C12: the mapped field with every trailing '@' and
\* after that every trailing ' ' removed, nothing else removed or changed
TrimmedAsDescribed ==
    (Done("get_string") /\ StringInRange(call)) =>
        /\ call.ret = DropTrailing(DropTrailing(MappedField(call), 64), 32)
        /\ IsPrefix(call.ret, MappedField(call))

\* C12: for an in-range field get_string(start, n) maps each 6-bit group v to
\* v + 64 when v < 32 and v otherwise, removes all trailing '@' and after that
\* all trailing spaces; a field of only '@' and/or trailing spaces yields the
\* empty string, and nothing but those trailing characters is removed or
\* changed.
C12_GetStringTrimmed ==
    /\ TrimmedAsDescribed
    /\ (Done("get_string") /\ StringInRange(call) /\ OnlyPadding(MappedField(call)))
            => call.ret = <<>>

\* C13: trimming is idempotent: the trim step applied to a string get_string
\* returned gives that same string.
C13_TrimIdempotent ==
    (Done("get_string") /\ StringInRange(call)) => TrimArmored(call.ret) = call.ret

(***************************************************************************)
(* parse_aivdm: the envelope checks                                        *)
(***************************************************************************)
\* '!' first, checksum valid, six or seven fields
Framed(s) ==
    /\ s # <<>> /\ s[1] = 33
    /\ kis_checksum_nmea_valid(s)
    /\ Len(FieldsOf(s)) \in {6, 7}

TalkerAccepted(s) == FieldsOf(s)[1] \in {STR_AIVDM, STR_AIVDO}

\* C14: parse_aivdm returns a record only for a line that starts with '!',
\* has a valid checksum, splits into 6 or 7 fields, has talker AIVDM or AIVDO
\* and a non-empty payload; the checks run in that order: a line that fails
\* one of the first three is refused before anything is stored, and a foreign
\* talker is refused before any later field is read.
C14_EnvelopeChecks ==
    Done("parse_aivdm") =>
        /\ call.ret =>
              /\ Framed(call.sentence) /\ TalkerAccepted(call.sentence)
              /\ FieldsOf(call.sentence)[6] # <<>>
        /\ ~Framed(call.sentence) => ~call.ret /\ DOMAIN call.out = {}
        /\ (Framed(call.sentence) /\ ~TalkerAccepted(call.sentence)) =>
              ~call.ret /\ DOMAIN call.out = {"nmea_talker_id_type"}
        /\ (Framed(call.sentence) /\ FieldsOf(call.sentence)[6] = <<>>) =>
              ~call.ret /\ "mmsi" \notin DOMAIN call.out

\* a foreign talker with a valid checksum and a decodable payload was refused
C14_Witness ==
    /\ Done("parse_aivdm") /\ ~call.ret
    /\ Framed(call.sentence) /\ FieldsOf(call.sentence)[1] = STR_GPGGA
    /\ FieldsOf(call.sentence)[2] = <<49>> /\ FieldsOf(call.sentence)[3] = <<49>>
    /\ FieldsOf(call.sentence)[6] = Payload123

\* the text is one or more decimal digits and nothing else
PureDecimal(text) == text # <<>> /\ \A i \in 1..Len(text) : IsDigit(text[i])

DecimalAtLeastOne(text) == PureDecimal(text) /\ \E i \in 1..Len(text) : text[i] # 48

\* C15: a sentence is accepted only if fragment_count and fragment_number are
\* both decimal integers >= 1; one in which either field is 0, negative or not
\* purely decimal digits is rejected and yields no record.
C15_FragmentFieldsValidated ==
    Done("parse_aivdm") /\ call.ret =>
        /\ DecimalAtLeastOne(FieldsOf(call.sentence)[2])
        /\ DecimalAtLeastOne(FieldsOf(call.sentence)[3])

(***************************************************************************)
(* Fragments                                                               *)
(***************************************************************************)
\* a framed sentence whose fragment_count is above 1 and whose
\* fragment_number is not 1
LaterFragment(s) ==
    /\ Framed(s)
    /\ stoi(FieldsOf(s)[2]).ok /\ stoi(FieldsOf(s)[3]).ok
    /\ stoi(FieldsOf(s)[2]).v > 1 /\ stoi(FieldsOf(s)[3]).v # 1

\* the MMSI of Sample5First, "369190000"
STR_MMSI_5 == <<51, 54, 57, 49, 57, 48, 48, 48, 48>>

\* the later fragments among the sentences the packets carry
LaterFragmentsCarried ==
    {RawSentences[i] : i \in {j \in 1..Len(RawSentences) : LaterFragment(RawSentences[j])}}

NoFragmentState ==
    (Gated(last'.packet) /\ RawSentence(last'.packet.doc) # <<>>) =>
        /\ last'.parse = Called(ParseOf(RawSentence(last'.packet.doc)))
        /\ RawSentence(last'.packet.doc) \in LaterFragmentsCarried =>
              /\ ~last'.parse.ret /\ "mmsi" \notin DOMAIN last'.parse.out
              /\ last'.outcome = "return 0"
              /\ devices' = devices

\* C16: a sentence with fragment_count > 1 and fragment_number # 1 is refused
\* whatever its payload: parse_aivdm fails, there is no record and no device
\* is created or updated; and what parse_aivdm does with a sentence depends
\* on the sentence alone, whatever sentences came before.
C16_LaterFragmentsDropped == [][NoFragmentState]_vars

\* fragment 2 of 2 was refused after fragment 1 of 2 had made its device
C16_Witness ==
    /\ Handled /\ Gated(last.packet)
    /\ RawSentence(last.packet.doc) = Sample5Second
    /\ last.outcome = "return 0" /\ ~last.parse.ret
    /\ \E m \in DOMAIN devices :
          devices[m].ais.present /\ devices[m].ais.mmsi = STR_MMSI_5

(***************************************************************************)
(* Dispatch on the message type                                            *)
(***************************************************************************)
\* the sentence passes every check before the payload is looked at
ReachesDispatch(s) ==
    /\ Framed(s) /\ TalkerAccepted(s)
    /\ stoi(FieldsOf(s)[2]).ok /\ stoi(FieldsOf(s)[3]).ok
    /\ ~(stoi(FieldsOf(s)[2]).v > 1 /\ stoi(FieldsOf(s)[3]).v # 1)
    /\ FieldsOf(s)[6] # <<>>

\* the value of the first payload character, -1 when it is no armor character
FirstCharValue(s) == decode_6bit_ascii(FieldsOf(s)[6][1])

KeysOf(fields) == {f.key : f \in fields}

\* C17: the value t of the first payload character decides: t in {1, 2, 3}
\* gives a position report record, t = 5 a static and voyage record, and
\* every other outcome (t = 0, any other t in 4..63, an invalid first
\* character) makes parse_aivdm fail with no record.
C17_Dispatch ==
    (Done("parse_aivdm") /\ ReachesDispatch(call.sentence)) =>
        /\ FirstCharValue(call.sentence) \in {1, 2, 3} =>
              /\ call.ret
              /\ KeysOf(Fields123) \subseteq DOMAIN call.out
              /\ (KeysOf(Fields5) \ KeysOf(Fields123)) \cap DOMAIN call.out = {}
        /\ FirstCharValue(call.sentence) = 5 =>
              /\ call.ret
              /\ KeysOf(Fields5) \cup {"eta_str"} \subseteq DOMAIN call.out
              /\ (KeysOf(Fields123) \ KeysOf(Fields5)) \cap DOMAIN call.out = {}
        /\ FirstCharValue(call.sentence) \notin {1, 2, 3, 5} =>
              /\ ~call.ret
              /\ (KeysOf(Fields123) \cup KeysOf(Fields5)) \cap DOMAIN call.out = {}

\* a payload that starts with '3' gave a position report
C17_Witness ==
    /\ Done("parse_aivdm") /\ ReachesDispatch(call.sentence)
    /\ FieldsOf(call.sentence)[6][1] = 51
    /\ call.ret /\ "lat" \in DOMAIN call.out

\* C18: every record parse_aivdm emits carries a message_type in 1..63, in
\* fact one of 1, 2, 3 and 5, equal to the type value used for dispatch, for
\* every payload length and every fill-bit count 0..5.
C18_RecordTypeIsDispatchType ==
    (Done("parse_aivdm") /\ call.ret) =>
        /\ call.out["message_type"].v \in {1, 2, 3, 5}
        /\ call.out["message_type"].v = FirstCharValue(call.sentence)

(***************************************************************************)
(* The ETA of a type 5 record                                              *)
(***************************************************************************)
TwoDigits(n) == <<48 + (n \div 10), 48 + (n % 10)>>

\* "MM-DD HH:MM UTC"
EtaText(mo, d, h, mi) ==
    TwoDigits(mo) \o <<45>> \o TwoDigits(d) \o <<32>> \o TwoDigits(h) \o <<58>>
        \o TwoDigits(mi) \o <<32, 85, 84, 67>>

STR_NA == <<78, 47, 65>>

EtaAsClaimed(bits, out) ==
    /\ {"eta_month", "eta_day", "eta_hour", "eta_minute", "eta_str"} \subseteq DOMAIN out
    /\ Len(bits) >= 294 =>
          /\ out["eta_month"].v = MsbFirstSum(bits, 274, 4)
          /\ out["eta_day"].v = MsbFirstSum(bits, 278, 5)
          /\ out["eta_hour"].v = MsbFirstSum(bits, 283, 5)
          /\ out["eta_minute"].v = MsbFirstSum(bits, 288, 6)
    /\ out["eta_str"].v =
          IF /\ out["eta_month"].v \in 1..12 /\ out["eta_day"].v \in 1..31
             /\ out["eta_hour"].v <= 23 /\ out["eta_minute"].v <= 59
          THEN EtaText(out["eta_month"].v, out["eta_day"].v,
                       out["eta_hour"].v, out["eta_minute"].v)
          ELSE STR_NA

\* C19: in a type 5 record eta_str is "MM-DD HH:MM UTC", two digits each and
\* zero padded, exactly when month is in 1..12, day in 1..31, hour <= 23 and
\* minute <= 59, and "N/A" otherwise; the raw eta_month, eta_day, eta_hour
\* and eta_minute are in the record in both cases.
C19_EtaString ==
    (Done("parse_aivdm") /\ call.ret /\ FirstCharValue(call.sentence) = 5) =>
        EtaAsClaimed(BufferOf(call.sentence), call.out)

\* "09-01 09:00 UTC" came out of month 9, day 1, hour 9, minute 0
C19_Witness ==
    /\ Done("parse_aivdm") /\ call.ret
    /\ call.sentence = Single(EtaPayload(9, 1, 9, 0), 2)
    /\ call.out["eta_str"].v = <<48, 57, 45, 48, 49, 32, 48, 57, 58, 48, 48, 32, 85, 84, 67>>
    /\ call.out["eta_month"].v = 9

(***************************************************************************)
(* mmsi_to_mac                                                             *)
(***************************************************************************)
\* the number a string of decimal digits spells
RECURSIVE DecimalValue(_)
DecimalValue(str) ==
    IF str = <<>> THEN 0
    ELSE 10 * DecimalValue(SubSeq(str, 1, Len(str) - 1)) + (str[Len(str)] - 48)

Low24(m) == m % (2 ^ 24)

\* C20: for a 9-digit decimal MMSI string of value m, mmsi_to_mac gives
\* 02:41:49 followed by (m >> 16) & 0xFF, (m >> 8) & 0xFF and m & 0xFF; two
\* MMSIs get the same MAC exactly when their low 24 bits are equal.
C20_MmsiToMac ==
    (Done("mmsi_to_mac") /\ IsNineDigits(call.mmsi) /\ IsNineDigits(call.other)) =>
        /\ call.ret = <<2, 65, 73,
                        (DecimalValue(call.mmsi) \div 65536) % 256,
                        (DecimalValue(call.mmsi) \div 256) % 256,
                        DecimalValue(call.mmsi) % 256>>
        /\ SubSeq(call.ret_other, 1, 3) = <<2, 65, 73>>
        /\ (call.ret = call.ret_other) <=>
              (Low24(DecimalValue(call.mmsi)) = Low24(DecimalValue(call.other)))

\* two different MMSIs, 2^24 apart, were given the same MAC
C20_Witness ==
    /\ Done("mmsi_to_mac")
    /\ call.mmsi = STR_MMSI_123 /\ call.other # call.mmsi
    /\ call.ret = call.ret_other
    /\ call.ret = <<2, 65, 73, 61, 80, 222>>

\* C21: mmsi_to_mac returns the zero MAC for every input that is not a string
\* of exactly nine decimal digits, 9-character strings with a leading space
\* or sign or a trailing letter among them.
C21_NonDigitsRejected ==
    (Done("mmsi_to_mac") /\ ~IsNineDigits(call.mmsi)) => call.ret = ZeroMac

\* C22 as stated: mmsi_to_mac("227006760") returns 02:41:49:0D:74:A8.
C22_SampleMacAsStated ==
    (Done("mmsi_to_mac") /\ call.mmsi = STR_MMSI_22) =>
        call.ret = <<2, 65, 73, 13, 116, 168>>

\* C22 amended: mmsi_to_mac("227006760") returns 02:41:49:87:D9:28, the low
\* three bytes of 227006760 = 0x0D87D928.
C22_SampleMac ==
    (Done("mmsi_to_mac") /\ call.mmsi = STR_MMSI_22) =>
        call.ret = <<2, 65, 73, 135, 217, 40>>

C22_Witness ==
    /\ Done("mmsi_to_mac") /\ call.mmsi = STR_MMSI_22 /\ call.other = STR_MMSI_22
    /\ call.ret_other[6] = 40

(***************************************************************************)
(* The sample sentence                                                     *)
(***************************************************************************)
\* C23 as stated: the sentence
\* !AIVDM,1,1,,A,133m@ogP00PD;88MD5MTDww@2D7k,0*5B passes the checksum check
\* and yields a record with message_type 1 and mmsi 227006760.
C23_SampleAsStated ==
    (Done("parse_aivdm") /\ call.sentence = BadChecksumSentence) =>
        /\ call.ret
        /\ call.out["message_type"].v = 1
        /\ call.out["mmsi"].v = 227006760

\* C23 amended: the checksum of that content is 46; the sentence ending in
\* *46 passes the checksum check and yields message_type 1 and mmsi
\* 205344990, the 30 bits at offset 8 of the payload, and the sentence ending
\* in *5B is refused at the checksum check.
C23_Sample ==
    Done("parse_aivdm") =>
        /\ call.sentence = Sample123 =>
              /\ call.ret /\ kis_checksum_nmea_valid(call.sentence)
              /\ call.out["message_type"].v = 1
              /\ call.out["mmsi"].v = 205344990
              /\ MsbFirstSum(BufferOf(call.sentence), 8, 30) = 205344990
        /\ call.sentence = BadChecksumSentence =>
              /\ ~kis_checksum_nmea_valid(call.sentence)
              /\ ~call.ret /\ DOMAIN call.out = {}

C23_Witness ==
    /\ Done("parse_aivdm") /\ call.sentence = Sample123 /\ call.base = Sample123
    /\ SubSeq(call.sentence, Len(call.sentence) - 2, Len(call.sentence)) = <<42, 52, 54>>
    /\ call.ret /\ call.out["mmsi"].v = 205344990

(***************************************************************************)
(* process_ais_json: the choice of path                                    *)
(***************************************************************************)
\* one of raw_sentence, raw, line, sentence carries a non-empty string
CarriesSentence(doc) ==
    \E i \in 1..Len(RawKeys) : is_string(doc, RawKeys[i]) /\ doc[RawKeys[i]].v # <<>>

PathChosen ==
    Gated(last'.packet) =>
        IF CarriesSentence(last'.packet.doc)
        THEN last'.parse.called
        ELSE /\ ~last'.parse.called
             /\ ~Has(last'.packet.doc, "mmsi") =>
                   last'.outcome = "return 0" /\ devices' = devices

\* C24: process_ais_json takes the raw-sentence path whenever at least one
\* of the keys raw_sentence, raw, line, sentence carries a non-empty string,
\* whatever the other three hold; otherwise it takes the pre-parsed path if
\* and only if mmsi is present; otherwise it fails and no device is created
\* or updated.
C24_PathChosen == [][PathChosen]_vars

(***************************************************************************)
(* process_ais_json: alternative keys                                      *)
(***************************************************************************)
\* the first of the listed keys that the document has, none if it has none
ChosenKey(listed, present) ==
    IF \E i \in 1..Len(listed) : listed[i] \in present
    THEN listed[CHOOSE i \in 1..Len(listed) :
                    listed[i] \in present /\ \A j \in 1..(i - 1) : listed[j] \notin present]
    ELSE None

\* the member holds the value under the chosen key, or was left alone
TakenFrom(member, listed, present, untouched) ==
    member = IF ChosenKey(listed, present) = None THEN untouched
             ELSE AliasValue[ChosenKey(listed, present)].v

\* C25: on the pre-parsed path each field with alternative keys takes the
\* value of its primary key when that is present and otherwise of the first
\* listed alias that is present, whatever other keys the object has.
C25_AliasesResolved ==
    Done("process_ais_json") =>
        /\ call.outcome = "true"
        /\ LET ais == devices[call.source].ais
           IN /\ TakenFrom(ais.vessel_name, <<"vessel_name", "shipname", "name">>, call.keys, <<>>)
              /\ TakenFrom(ais.imo_number, <<"imo_number", "imo">>, call.keys, 0)
              /\ TakenFrom(ais.ship_type, <<"ship_type", "shiptype">>, call.keys, 0)
              /\ TakenFrom(ais.nav_status, <<"nav_status", "navstatus">>, call.keys, 0)
              /\ TakenFrom(ais.eta, <<"eta_str", "eta">>, call.keys, <<>>)
        /\ call.gps.spd =
              IF ChosenKey(<<"sog", "speed">>, call.keys) = None THEN Rat(0, 1)
              ELSE Rat(AliasValue[ChosenKey(<<"sog", "speed">>, call.keys)].v * 514444, 1000000)
        /\ ChosenKey(<<"cog", "course">>, call.keys) # None =>
              call.gps.heading = Rat(AliasValue[ChosenKey(<<"cog", "course">>, call.keys)].v, 1)

(***************************************************************************)
(* packet_handler: how a packet ends                                       *)
(***************************************************************************)
\* C27: every packet ends with packet_handler returning 0 or 1; no failure,
\* the device list lock timing out included, leaves it as an exception.
C27_HandlerReturns ==
    Handled => last.outcome \in {"return 0", "return 1"}

(***************************************************************************)
(* The device name over a sequence of records                              *)
(***************************************************************************)
\* C30: a tracked vessel is named "<vessel_name> (<mmsi>)" whenever a vessel
\* name is stored for it, and "AIS <mmsi>" only while none is; a position
\* report after a static report leaves the name in place.
C30_NameFollowsVesselName ==
    \A m \in DOMAIN devices :
        devices[m].ais.present =>
            devices[m].devicename =
                IF devices[m].ais.vessel_name # <<>>
                THEN devices[m].ais.vessel_name \o <<32, 40>> \o devices[m].ais.mmsi \o <<41>>
                ELSE STR_AIS_SP \o devices[m].ais.mmsi

(***************************************************************************)
(* kis_unique_lock: the locked flag                                        *)
(***************************************************************************)
\* C29: in every state a kis_unique_lock can reach, locked is true exactly
\* when the object holds one acquisition of the mutex; so the destructor and
\* unlock() never release a mutex that is not held, and a destroyed object
\* holds nothing.
C29_LockedIffHeld ==
    \A t \in Threads :
        /\ threads[t].obj = "alive" =>
                (threads[t].locked <=> threads[t].acquisitions = 1)
        /\ threads[t].obj = "destroyed" => threads[t].acquisitions = 0

(***************************************************************************)
(* process_ais_json: the device list mutex                                 *)
(***************************************************************************)
\* the thread is between the lock and the return that follows it
InTracker(t) == threads[t].pc \in {"locked", "based", "populated"}

\* where each thread is, against what it holds of the mutex
LockHeldInSection ==
    /\ \A t \in Threads :
            /\ threads[t].pc \in {"idle", "decoded"} => threads[t].guard = 0 /\ mutex.owner # t
            /\ InTracker(t) => threads[t].guard = 1 /\ mutex = [owner |-> t, depth |-> 1]
            /\ threads[t].pc \in {"returned", "thrown"} =>
                    threads[t].guard = 0 /\ mutex.owner # t
    /\ Cardinality({t \in Threads : InTracker(t)}) <= 1

\* the device tracker changes only in steps of the thread that holds the mutex
UpdatesUnderLock ==
    devices' # devices => \E t \in Threads : InTracker(t) /\ mutex.owner = t

\* C28: the device list mutex is taken only after decoding, MMSI validation
\* and MAC derivation succeeded; it is held through every device tracker
\* update and given back on every exit after it; at most one thread is in
\* the tracker section, and no thread returns holding an acquisition.
C28_LockDiscipline == []LockHeldInSection /\ [][UpdatesUnderLock]_vars

C28_Witness ==
    \E t, u \in Threads :
        /\ threads[t].pc = "populated" /\ mutex.owner = t
        /\ threads[u].pc = "thrown"
        /\ devices # NoDevices

(***************************************************************************)
(* parse_aivdm under concurrent calls                                      *)
(***************************************************************************)
\* a finished call left what the same call leaves when it runs alone
DoneAsAlone ==
    \A t \in Threads :
        threads[t].pc = "done" =>
            /\ threads[t].ret = ParseOf(threads[t].sentence).ret
            /\ threads[t].data = ParseOf(threads[t].sentence).out

\* a step changes the frame of one thread and nothing else
OneFrameChanges ==
    /\ \E t \in Threads : \A u \in Threads \ {t} : threads'[u] = threads[u]
    /\ UNCHANGED <<devices, mutex>>

====
